---------------------------- MODULE Spec2Model ----------------------------
(***************************************************************************)
(* A model of starpath's astronomical module (astronomical.js): Julian     *)
(* date, degree trigonometry, RaDec2AzEl, the HMS/DMS conversions and the  *)
(* hourly / nighttime / custom-range generators; and of the inputs that    *)
(* feed it: CoordinateInput's and ObserverSettings' change handlers and    *)
(* App's coordinate state and effect; and of the components around them:   *)
(* useLocalStorage over window.localStorage, SimbadSearch, and PolarPlot's *)
(* path, compass labels and markers.                                       *)
(*                                                                         *)
(* Number representation.  JavaScript numbers are doubles; TLC has 32-bit  *)
(* integers.  The model is fixed-point:                                    *)
(*   - an angle is an integer count of 1/360000 degree (a hundredth of an  *)
(*     arcsecond), DEG units to the degree;                                *)
(*   - a sine or cosine is an integer count of 1/1000 (SCALE);             *)
(*   - an instant (a Date's time value) is the pair [day, ms]: whole days  *)
(*     since 1970-01-01T00:00Z and milliseconds within that day, so that   *)
(*     getTime() = day * 86400000 + ms without leaving 32 bits;            *)
(*   - a Julian date is likewise [day, ms], meaning day + ms / 86400000;   *)
(*   - a value that can be NaN or infinite is a record [k, v] with k one   *)
(*     of "fin", "nan", "inf" (v the value, 0, or the sign).               *)
(* Real division rounds towards zero (TruncDiv).  Signed zeros are not     *)
(* modelled.  A double cosine is never exactly 0; cosd keeps that.         *)
(* A Date's local fields use a fixed UTC offset tz (minutes east of UTC);  *)
(* daylight-saving transitions are not modelled.                           *)
(***************************************************************************)
EXTENDS Integers, Sequences, FiniteSets, TLC

VARIABLES
    tz,               \* the environment's UTC offset, minutes east of UTC
    now,              \* the wall clock read by `new Date()`
    op,               \* the exported function called last
    startDate,        \* its Date argument
    startHour,        \* its startHour argument
    endHour,          \* its endHour argument
    celestialObject,  \* its {ra, dec} argument
    observer,         \* the observer {lat, lon} in force
    dates,            \* the array of Dates it produced
    data,             \* the array of position samples it produced
    args,             \* arguments of a scalar function call
    ret,              \* result of a scalar function call
    prev,             \* [args, ret] of the previous getJulian call
    calls,            \* log of RaDec2AzEl calls: {[in, clock, out]}
    coords,           \* App's coordinate state (useLocalStorageGroup values)
    heap,             \* the Date objects allocated so far: id -> instant
    storage,          \* window.localStorage: key -> item text
    objectName,       \* App's objectName state
    simbad,           \* SimbadSearch's state and its searches in flight
    plot              \* what PolarPlot's effect drew last

vars == <<tz, now, op, startDate, startHour, endHour, celestialObject,
          observer, dates, data, args, ret, prev, calls, coords, heap,
          storage, objectName, simbad, plot>>

-----------------------------------------------------------------------------
(* Units *)

DEG == 360000
SCALE == 1000
MsPerDay == 86400000
MsPerHour == 3600000
MsPerMinute == 60000
MsPerSecond == 1000

Abs(x) == IF x < 0 THEN -x ELSE x
Sign(x) == IF x < 0 THEN -1 ELSE IF x > 0 THEN 1 ELSE 0

\* real division, rounded towards zero
TruncDiv(a, b) == Sign(a) * Sign(b) * (Abs(a) \div Abs(b))

Fin(x) == [k |-> "fin", v |-> x]
NaN == [k |-> "nan", v |-> 0]
Inf(s) == [k |-> "inf", v |-> s]
IsFinite(x) == x.k = "fin"

\* a / b on finite operands, IEEE 754: x/0 is an infinity, 0/0 is NaN.
\* a, b carry scale SCALE; so does the quotient.
Divide(a, b) ==
    IF b # 0 THEN Fin(TruncDiv(a * SCALE, b))
    ELSE IF a = 0 THEN NaN
    ELSE Inf(Sign(a))

\* a / (b * c) on finite operands of scale SCALE: the product b * c is kept
\* exact (a product of two non-zero doubles of this size does not underflow)
DivideByProduct(a, b, c) ==
    IF b * c # 0 THEN Fin(TruncDiv(a * SCALE * SCALE, b * c))
    ELSE IF a = 0 THEN NaN
    ELSE Inf(Sign(a))

-----------------------------------------------------------------------------
(* Date: the parts of the JavaScript Date object the module uses *)

\* bring ms back into 0 .. MsPerDay-1, carrying into day
Norm(d) == [day |-> d.day + (d.ms \div MsPerDay), ms |-> d.ms % MsPerDay]

\* LocalTime(t) and UTC(t) of ECMAScript, with a fixed offset
LocalTime(d) == Norm([day |-> d.day, ms |-> d.ms + tz * MsPerMinute])
UTC(l) == Norm([day |-> l.day, ms |-> l.ms - tz * MsPerMinute])

getHours(d) == LocalTime(d).ms \div MsPerHour
getMinutes(d) == (LocalTime(d).ms % MsPerHour) \div MsPerMinute
getSeconds(d) == (LocalTime(d).ms % MsPerMinute) \div MsPerSecond
getMilliseconds(d) == LocalTime(d).ms % MsPerSecond
\* the local calendar day, counted in days since 1970-01-01
LocalDay(d) == LocalTime(d).day

\* date.setHours(hour): the other time fields are kept; an hour outside
\* 0..23 carries into the day (MakeTime / MakeDate)
setHours(d, hour) ==
    UTC([day |-> LocalDay(d),
         ms |-> hour * MsPerHour + (LocalTime(d).ms % MsPerHour)])

\* date.setHours(hour, min, sec, ms)
setHours4(d, hour, min, sec, msec) ==
    UTC([day |-> LocalDay(d),
         ms |-> hour * MsPerHour + min * MsPerMinute + sec * MsPerSecond + msec])

\* date.setDate(date.getDate() + n): the same local time of day, n calendar
\* days later (a day of the month past the month's end carries into the
\* next month)
addDays_SameDay(d, n) == d

addDays(d, n) == UTC([day |-> LocalDay(d) + n, ms |-> LocalTime(d).ms])

\* t1 <= t2 on instants or Julian dates
Leq(a, b) == a.day < b.day \/ (a.day = b.day /\ a.ms <= b.ms)

-----------------------------------------------------------------------------
(* getJulian, mod, sind, cosd, asind *)

\* date.getTime() / 86400000 + 2440587.5
getJulian_IntegerOffset(date) ==
    Norm([day |-> date.day + 2440588, ms |-> date.ms])

getJulian(date) ==
    Norm([day |-> date.day + 2440587, ms |-> date.ms + (MsPerDay \div 2)])

\* a % b of JavaScript: the remainder of the division truncated towards
\* zero; NaN when b is 0
mod_Floored(a, b) ==
    IF b > 0 THEN a - b * (a \div b) ELSE a - b * ((-a) \div (-b))

mod(a, b) == a - b * TruncDiv(a, b)

\* floor(1000 * sin(d degrees)) for d = 0 .. 90, at index d + 1
SinTable ==
    <<0, 17, 34, 52, 69, 87, 104, 121, 139, 156, 173, 190, 207, 224, 241,
      258, 275, 292, 309, 325, 342, 358, 374, 390, 406, 422, 438, 453, 469,
      484, 500, 515, 529, 544, 559, 573, 587, 601, 615, 629, 642, 656, 669,
      681, 694, 707, 719, 731, 743, 754, 766, 777, 788, 798, 809, 819, 829,
      838, 848, 857, 866, 874, 882, 891, 898, 906, 913, 920, 927, 933, 939,
      945, 951, 956, 961, 965, 970, 974, 978, 981, 984, 987, 990, 992, 994,
      996, 997, 998, 999, 999, 1000>>

\* sine of an angle a in 0 .. 90 degrees, interpolated between whole degrees
SinQ(a) ==
    LET d == a \div DEG
        f == a % DEG
    IN  IF f = 0 THEN SinTable[d + 1]
        ELSE SinTable[d + 1] + ((SinTable[d + 2] - SinTable[d + 1]) * f) \div DEG

\* sine of an angle r in 0 .. 360 degrees
SinPos(r) ==
    IF r <= 90 * DEG THEN SinQ(r)
    ELSE IF r <= 180 * DEG THEN SinQ(180 * DEG - r)
    ELSE IF r <= 270 * DEG THEN -SinQ(r - 180 * DEG)
    ELSE -SinQ(360 * DEG - r)

\* Math.sin(deg * Math.PI / 180), scaled by SCALE
sind(deg) == Sign(deg) * SinPos(Abs(deg) % (360 * DEG))

\* Math.cos(deg * Math.PI / 180), scaled by SCALE
cosd_ExactZero(deg) ==
    SinPos(((Abs(deg) % (360 * DEG)) + 90 * DEG) % (360 * DEG))

\* A double cosine is never exactly zero: Math.cos(90 * Math.PI / 180) is
\* 6.1e-17 and Math.cos(270 * Math.PI / 180) is -1.8e-16, because no double
\* is an odd multiple of pi / 2.  Where the table value rounds to 0 the
\* result is one unit, signed as the double cosine is.
cosd(deg) ==
    LET r == Abs(deg) % (360 * DEG)
        c == SinPos((r + 90 * DEG) % (360 * DEG))
    IN  IF c # 0 THEN c
        ELSE IF r <= 90 * DEG \/ r > 270 * DEG THEN 1 ELSE -1

\* the largest whole degree a in lo .. hi whose sine is at most x (bisection;
\* the sine of lo is at most x)
RECURSIVE AsinSearch(_, _, _)
AsinSearch(lo, hi, x) ==
    IF lo = hi THEN lo
    ELSE LET mid == (lo + hi + 1) \div 2
         IN  IF SinTable[mid + 1] <= x THEN AsinSearch(mid, hi, x)
             ELSE AsinSearch(lo, mid - 1, x)

\* Math.asin(x) * 180 / Math.PI for x scaled by SCALE: NaN outside [-1, 1],
\* else the whole degree whose sine is next below |x|, signed like x
asind(x) ==
    IF Abs(x) > SCALE THEN NaN
    ELSE Fin(Sign(x) * DEG * AsinSearch(0, 90, Abs(x)))

\* the largest whole degree a in lo .. hi with tan(a) <= ay / ax, i.e.
\* sin(a) * ax <= cos(a) * ay (bisection; lo satisfies it)
RECURSIVE AtanSearch(_, _, _, _)
AtanSearch(lo, hi, ay, ax) ==
    IF lo = hi THEN lo
    ELSE LET mid == (lo + hi + 1) \div 2
         IN  IF SinTable[mid + 1] * ax <= SinTable[91 - mid] * ay
             THEN AtanSearch(mid, hi, ay, ax)
             ELSE AtanSearch(lo, mid - 1, ay, ax)

\* atan of ay / ax in whole degrees 0 .. 90, for ax, ay >= 0 not both 0;
\* large operands are scaled down together first (the ratio is what counts)
AtanQ(ay, ax) ==
    LET k == ((IF ay > ax THEN ay ELSE ax) \div 1000000) + 1
    IN  AtanSearch(0, 90, ay \div k, ax \div k)

\* Math.atan2(y, x) * (180 / Math.PI): y, x are [k, v] values
atan2d(y, x) ==
    IF y.k = "nan" \/ x.k = "nan" THEN NaN
    ELSE IF y.k = "inf" /\ x.k = "inf"
         THEN Fin(y.v * (IF x.v > 0 THEN 45 ELSE 135) * DEG)
    ELSE IF y.k = "inf" THEN Fin(y.v * 90 * DEG)
    ELSE IF x.k = "inf"
         THEN Fin(IF x.v > 0 THEN 0 ELSE (IF y.v < 0 THEN -180 ELSE 180) * DEG)
    ELSE IF x.v = 0 /\ y.v = 0 THEN Fin(0)
    ELSE LET q == AtanQ(Abs(y.v), Abs(x.v))
         IN  IF x.v >= 0 THEN Fin(Sign(y.v) * q * DEG)
             ELSE IF y.v >= 0 THEN Fin((180 - q) * DEG)
             ELSE Fin((q - 180) * DEG)

-----------------------------------------------------------------------------
(* RaDec2AzEl *)

\* Julian days from J2000.0 of a Julian date: JD - 2451545, as [day, ms]
SinceJ2000(JD) == [day |-> JD.day - 2451545, ms |-> JD.ms]

\* The GMST polynomial, in whole seconds of time:
\*   67310.54841 + (876600 * 3600 + 8640184.812866) * T_UT1
\*               + 0.093104 * T_UT1^2 - 6.2e-6 * T_UT1^3,
\* with T_UT1 = D / 36525 for D = [day, ms] days.  The linear coefficient is
\* (876600 * 3600 + 8640184.812866) / 36525 = 86400 + 236.55536 seconds per
\* day; it is applied to the whole days and to the fraction of a day
\* separately to stay within 32 bits.  Tc is T_UT1 in hundredths of a
\* century.
ThetaGMSTRaw(D) ==
    LET secs == D.ms \div MsPerSecond
        Tc == TruncDiv(D.day * 100, 36525)
    IN  67310
        + 86400 * D.day + 236 * D.day + TruncDiv(55536 * D.day, 100000)
        + secs + TruncDiv(secs * 2738, 1000000)
        + TruncDiv(TruncDiv(93104 * Tc * Tc, 1000000), 10000)
        - TruncDiv(TruncDiv(62 * Tc * Tc * Tc, 10000000), 1000000)

\* mod(mod(ThetaGMST, 86400 * (ThetaGMST / Math.abs(ThetaGMST))) / 240, 360)
\* in angle units: one second of time is 1/240 degree.  0 / 0 is NaN.
NormalizeGMST(ThetaGMST) ==
    IF ThetaGMST = 0 THEN NaN
    ELSE Fin(mod(mod(ThetaGMST, 86400 * TruncDiv(ThetaGMST, Abs(ThetaGMST)))
                    * (DEG \div 240),
                 360 * DEG))

\* the final normalisation of the azimuth: mod(atan2(...) * 180 / PI, 360)
NormalizeAz(a) == IF IsFinite(a) THEN Fin(mod(a.v, 360 * DEG)) ELSE NaN

\* Az = mod(atan2(-sind(LHA) * cosd(Dec) / cosd(El),
\*                (sind(Dec) - sind(El) * sind(lat)) / (cosd(El) * cosd(lat)))
\*          * (180 / PI), 360), for a finite El
Azimuth(El, LHA, Dec, lat) ==
    NormalizeAz(atan2d(
        Divide(TruncDiv((-sind(LHA)) * cosd(Dec), SCALE), cosd(El)),
        DivideByProduct(sind(Dec) - TruncDiv(sind(El) * sind(lat), SCALE),
                        cosd(El), cosd(lat))))

\* El = asind(sind(lat) * sind(Dec) + cosd(lat) * cosd(Dec) * cosd(LHA))
Elevation_ZenithAngle(LHA, Dec, lat) ==
    LET x == TruncDiv(sind(lat) * sind(Dec), SCALE)
             + TruncDiv(TruncDiv(cosd(lat) * cosd(Dec), SCALE) * cosd(LHA), SCALE)
    IN  IF IsFinite(asind(x)) THEN Fin(90 * DEG - asind(x).v) ELSE NaN

Elevation(LHA, Dec, lat) ==
    asind(TruncDiv(sind(lat) * sind(Dec), SCALE)
          + TruncDiv(TruncDiv(cosd(lat) * cosd(Dec), SCALE) * cosd(LHA), SCALE))

\* {az : Az, el : El}; a NaN elevation makes the azimuth NaN
AzEl(El, LHA, Dec, lat) ==
    IF IsFinite(El) THEN [az |-> Azimuth(El.v, LHA, Dec, lat), el |-> El]
    ELSE [az |-> NaN, el |-> NaN]

\* const LHA = mod(ThetaLST - Ra, 360), with ThetaLST = ThetaGMST + lon
LHA(ThetaGMST, lon, Ra) == mod(ThetaGMST + lon - Ra, 360 * DEG)

\* the steps after the GMST; a NaN ThetaGMST makes every later value NaN
FromGMST(ThetaGMST, Ra, Dec, lat, lon) ==
    IF IsFinite(ThetaGMST)
    THEN AzEl(Elevation(LHA(ThetaGMST.v, lon, Ra), Dec, lat),
              LHA(ThetaGMST.v, lon, Ra), Dec, lat)
    ELSE [az |-> NaN, el |-> NaN]

\* the normalised GMST RaDec2AzEl computes for dateObj
ThetaGMST(dateObj) ==
    NormalizeGMST(ThetaGMSTRaw(SinceJ2000(getJulian(dateObj))))

\* RaDec2AzEl from the Julian date on.  Ra, Dec, lat, lon are finite angles.
RaDec2AzElAt(Ra, Dec, lat, lon, JD) ==
    FromGMST(NormalizeGMST(ThetaGMSTRaw(SinceJ2000(JD))), Ra, Dec, lat, lon)

RaDec2AzEl_ReadsClock(Ra, Dec, lat, lon, dateObj) ==
    RaDec2AzElAt(Ra, Dec, lat, lon, getJulian(now))

\* const JD = getJulian(dateObj); ...
RaDec2AzEl(Ra, Dec, lat, lon, dateObj) ==
    RaDec2AzElAt(Ra, Dec, lat, lon, getJulian(dateObj))

\* (h + m / 60 + s / 3600) * (15 / 1): h and m are numbers, s100 is the
\* seconds in hundredths; the result is in angle units
hmsToDeg(h, m, s100) ==
    (h * DEG + TruncDiv(m * DEG, 60) + TruncDiv(s100 * (DEG \div 100), 3600)) * 15

\* d + m / 60 + s / 3600
dmsToDeg_NoSeconds(d, m, s100) == d * DEG + TruncDiv(m * DEG, 60)

dmsToDeg(d, m, s100) ==
    d * DEG + TruncDiv(m * DEG, 60) + TruncDiv(s100 * (DEG \div 100), 3600)

fireworksCelestial == [ra |-> hmsToDeg(20, 35, 2500), dec |-> dmsToDeg(60, 14, 4700)]
solCelestial == [ra |-> hmsToDeg(13, 42, 3213), dec |-> dmsToDeg(-10, 59, 5520)]
polarisCelestial == [ra |-> hmsToDeg(2, 31, 4900), dec |-> dmsToDeg(89, 15, 5100)]
dunstableMAUsaLatLong == [lat |-> dmsToDeg(42, 41, 100), lon |-> -dmsToDeg(71, 28, 1600)]

calculatePositionAtTime(date, obj) ==
    RaDec2AzEl(obj.ra, obj.dec, dunstableMAUsaLatLong.lat,
               dunstableMAUsaLatLong.lon, date)

-----------------------------------------------------------------------------
(* The generators *)

\* addTime(amount, date, 'setHours', 'getHours'): a copy of date with
\* amount added to its hour field
addTime(amount, date) == setHours(date, getHours(date) + amount)

generateHourlyDates_OffByOne(start) == [i \in 1..24 |-> addTime(i, start)]

generateHourlyDates(start) == [i \in 1..24 |-> addTime(i - 1, start)]

generateNighttimeDates(start) ==
    LET nextDay == addDays(start, 1)
    IN  [i \in 1..6 |-> addTime(17 + i, start)]
        \o [i \in 1..6 |-> addTime(i - 1, nextDay)]

createDateWithHour_KeepMinutes(baseDate, hour) == setHours(baseDate, hour)

createDateWithHour(baseDate, hour) == setHours4(baseDate, hour, 0, 0, 0)

generateCustomTimeDates_SameDay(start, sHour, eHour) ==
    IF sHour <= eHour
    THEN [i \in 1..(eHour - sHour + 1) |-> createDateWithHour(start, sHour + i - 1)]
    ELSE [i \in 1..(24 - sHour) |-> createDateWithHour(start, sHour + i - 1)]
         \o [i \in 1..(eHour + 1) |-> createDateWithHour(start, i - 1)]

generateCustomTimeDates_Exclusive(start, sHour, eHour) ==
    IF sHour <= eHour
    THEN [i \in 1..(eHour - sHour) |-> createDateWithHour(start, sHour + i - 1)]
    ELSE LET nextDay == addDays(start, 1)
         IN  [i \in 1..(24 - sHour) |-> createDateWithHour(start, sHour + i - 1)]
             \o [i \in 1..(eHour + 1) |-> createDateWithHour(nextDay, i - 1)]

generateCustomTimeDates(start, sHour, eHour) ==
    IF sHour <= eHour
    THEN [i \in 1..(eHour - sHour + 1) |-> createDateWithHour(start, sHour + i - 1)]
    ELSE LET nextDay == addDays(start, 1)
         IN  [i \in 1..(24 - sHour) |-> createDateWithHour(start, sHour + i - 1)]
             \o [i \in 1..(eHour + 1) |-> createDateWithHour(nextDay, i - 1)]

\* dateVec.map(date => calculatePositionAtTime(date, celestialObject))
generatePositionData(obj, start) ==
    LET dateVec == generateHourlyDates(start)
    IN  [i \in 1..Len(dateVec) |-> calculatePositionAtTime(dateVec[i], obj)]

\* {...position, time: date.getHours()}
Sample(pos, date) == [az |-> pos.az, el |-> pos.el, time |-> getHours(date)]

generateNighttimePositionData(obj, start) ==
    LET dateVec == generateNighttimeDates(start)
    IN  [i \in 1..Len(dateVec) |->
            Sample(calculatePositionAtTime(dateVec[i], obj), dateVec[i])]

generateCustomTimePositionData_IndexLabel(obj, start, sHour, eHour) ==
    LET dateVec == generateCustomTimeDates(start, sHour, eHour)
    IN  [i \in 1..Len(dateVec) |->
            [az |-> calculatePositionAtTime(dateVec[i], obj).az,
             el |-> calculatePositionAtTime(dateVec[i], obj).el,
             time |-> i - 1]]

generateCustomTimePositionData(obj, start, sHour, eHour) ==
    LET dateVec == generateCustomTimeDates(start, sHour, eHour)
    IN  [i \in 1..Len(dateVec) |->
            Sample(calculatePositionAtTime(dateVec[i], obj), dateVec[i])]

\* App's effect: the same mapping with the user's object and observer
AppCurrentObject(obj, obs, observationDate, startTime, endTime) ==
    LET dateVec == generateCustomTimeDates(observationDate, startTime, endTime)
    IN  [i \in 1..Len(dateVec) |->
            Sample(RaDec2AzEl(obj.ra, obj.dec, obs.lat, obs.lon, dateVec[i]),
                   dateVec[i])]

-----------------------------------------------------------------------------
(* The generators on Date objects.  A Date is an object: h is the heap, a   *)
(* sequence whose i-th entry is the instant object i denotes; `new Date(d)` *)
(* appends an object, a setter changes one in place.  Each operator         *)
(* returns the heap it leaves and what the function returns.               *)

\* new Date(date): a new object denoting the instant date denotes
NewDate(h, date) == Append(h, h[date])

\* const newDate = new Date(date); newDate.setHours(newDate.getHours() +
\* amount); return newDate
HeapAddTime_InPlace(h, amount, date) ==
    [heap |-> [h EXCEPT ![date] = setHours(@, getHours(@) + amount)],
     ref |-> date]

HeapAddTime(h, amount, date) ==
    LET h1 == NewDate(h, date)
        newDate == Len(h1)
    IN  [heap |-> [h1 EXCEPT ![newDate] = setHours(@, getHours(@) + amount)],
         ref |-> newDate]

\* const newDate = new Date(baseDate); newDate.setHours(hour, 0, 0, 0);
\* return newDate
HeapCreateDateWithHour(h, baseDate, hour) ==
    LET h1 == NewDate(h, baseDate)
        newDate == Len(h1)
    IN  [heap |-> [h1 EXCEPT ![newDate] = setHours4(@, hour, 0, 0, 0)],
         ref |-> newDate]

\* for (let h = from; h <= to; h++) dates.push(addTime(h, date, ...))
RECURSIVE AddTimeLoop(_, _, _, _, _)
AddTimeLoop(h, datesSoFar, date, from, to) ==
    IF from > to THEN [heap |-> h, dates |-> datesSoFar]
    ELSE LET r == HeapAddTime(h, from, date)
         IN  AddTimeLoop(r.heap, Append(datesSoFar, r.ref), date, from + 1, to)

\* for (let h = from; h <= to; h++) dates.push(createDateWithHour(base, h))
RECURSIVE CreateLoop(_, _, _, _, _)
CreateLoop(h, datesSoFar, baseDate, from, to) ==
    IF from > to THEN [heap |-> h, dates |-> datesSoFar]
    ELSE LET r == HeapCreateDateWithHour(h, baseDate, from)
         IN  CreateLoop(r.heap, Append(datesSoFar, r.ref), baseDate, from + 1, to)

\* const nextDay = new Date(startDate); nextDay.setDate(nextDay.getDate() + 1)
HeapNextDay(h, start) ==
    LET h1 == NewDate(h, start)
    IN  [h1 EXCEPT ![Len(h1)] = addDays(@, 1)]

HeapGenerateHourlyDates(h, start) == AddTimeLoop(h, <<>>, start, 0, 23)

HeapGenerateNighttimeDates(h, start) ==
    LET evening == AddTimeLoop(h, <<>>, start, 18, 23)
        h1 == HeapNextDay(evening.heap, start)
    IN  AddTimeLoop(h1, evening.dates, Len(h1), 0, 5)

HeapGenerateCustomTimeDates(h, start, sHour, eHour) ==
    IF sHour <= eHour THEN CreateLoop(h, <<>>, start, sHour, eHour)
    ELSE LET evening == CreateLoop(h, <<>>, start, sHour, 23)
             h1 == HeapNextDay(evening.heap, start)
         IN  CreateLoop(h1, evening.dates, Len(h1), 0, eHour)

-----------------------------------------------------------------------------
(* CoordinateInput, ObserverSettings and App: the state behind the inputs *)

\* e.target.value of an input element: a decimal numeral, given in
\* hundredths, or text that is not a numeral
Num(v100) == [k |-> "num", v |-> v100]
Text == [k |-> "text", v |-> 0]

\* parseInt(value): the numeral's integer part; NaN for other text
parseInt(value) ==
    IF value.k = "num" THEN Fin(TruncDiv(value.v, 100)) ELSE NaN

\* parseFloat(value), in hundredths; NaN for other text
parseFloat(value) == IF value.k = "num" THEN Fin(value.v) ELSE NaN

\* CoordinateInput's defaultBounds; the tertiary bounds (0 .. 59.99) are in
\* hundredths
defaultBounds ==
    [RA |-> [primary |-> [min |-> 0, max |-> 23],
             secondary |-> [min |-> 0, max |-> 59],
             tertiary |-> [min |-> 0, max |-> 5999]],
     Dec |-> [primary |-> [min |-> -90, max |-> 90],
              secondary |-> [min |-> 0, max |-> 59],
              tertiary |-> [min |-> 0, max |-> 5999]],
     Latitude |-> [primary |-> [min |-> 0, max |-> 90],
                   secondary |-> [min |-> 0, max |-> 59],
                   tertiary |-> [min |-> 0, max |-> 5999]],
     Longitude |-> [primary |-> [min |-> 0, max |-> 180],
                    secondary |-> [min |-> 0, max |-> 59],
                    tertiary |-> [min |-> 0, max |-> 5999]]]

\* CoordinateInput.handleInputChange(field, value) for a numeric field: the
\* values handed to onChange, or the current values when it returns early
\* (NaN, or outside the field's bounds)
handleInputChange_NoBounds(type, values, field, value) ==
    LET parsedValue == IF field = "tertiary" THEN parseFloat(value)
                       ELSE parseInt(value)
    IN  IF ~IsFinite(parsedValue) THEN values
        ELSE [values EXCEPT ![field] = parsedValue.v]

handleInputChange(type, values, field, value) ==
    LET parsedValue == IF field = "tertiary" THEN parseFloat(value)
                       ELSE parseInt(value)
        fieldBounds == defaultBounds[type][field]
    IN  IF ~IsFinite(parsedValue) THEN values
        ELSE IF parsedValue.v < fieldBounds.min \/ parsedValue.v > fieldBounds.max
             THEN values
        ELSE [values EXCEPT ![field] = parsedValue.v]

\* handleInputChange('direction', value): no parsing, no bounds
handleDirectionChange(values, value) == [values EXCEPT !.direction = value]

\* whether handleInputChange(field, value) reaches its onChange call, for a
\* numeric field
callsOnChange(type, field, value) ==
    LET parsedValue == IF field = "tertiary" THEN parseFloat(value)
                       ELSE parseInt(value)
        fieldBounds == defaultBounds[type][field]
    IN  /\ IsFinite(parsedValue)
        /\ ~(parsedValue.v < fieldBounds.min \/ parsedValue.v > fieldBounds.max)

\* useLocalStorageGroup('starpath_', {...}): the defaults (seconds and
\* arcseconds in hundredths)
defaultCoords ==
    [raHours |-> 20, raMinutes |-> 35, raSeconds |-> 2500,
     decDegrees |-> 60, decArcminutes |-> 14, decArcseconds |-> 4700,
     latDegrees |-> 42, latArcminutes |-> 41, latArcseconds |-> 100,
     latDirection |-> "N",
     lonDegrees |-> 71, lonArcminutes |-> 28, lonArcseconds |-> 1600,
     lonDirection |-> "W"]

\* the values App hands to each CoordinateInput
raCoordinates(c) ==
    [primary |-> c.raHours, secondary |-> c.raMinutes, tertiary |-> c.raSeconds]
decCoordinates(c) ==
    [primary |-> c.decDegrees, secondary |-> c.decArcminutes,
     tertiary |-> c.decArcseconds]
latitudeCoordinates(c) ==
    [primary |-> c.latDegrees, secondary |-> c.latArcminutes,
     tertiary |-> c.latArcseconds, direction |-> c.latDirection]
longitudeCoordinates(c) ==
    [primary |-> c.lonDegrees, secondary |-> c.lonArcminutes,
     tertiary |-> c.lonArcseconds, direction |-> c.lonDirection]

\* App's coordinate change handlers
handleRaChange(c, newValues) ==
    [c EXCEPT !.raHours = newValues.primary, !.raMinutes = newValues.secondary,
              !.raSeconds = newValues.tertiary]
handleDecChange(c, newValues) ==
    [c EXCEPT !.decDegrees = newValues.primary,
              !.decArcminutes = newValues.secondary,
              !.decArcseconds = newValues.tertiary]
handleLatitudeChange(c, newValues) ==
    [c EXCEPT !.latDegrees = newValues.primary,
              !.latArcminutes = newValues.secondary,
              !.latArcseconds = newValues.tertiary,
              !.latDirection = newValues.direction]
handleLongitudeChange(c, newValues) ==
    [c EXCEPT !.lonDegrees = newValues.primary,
              !.lonArcminutes = newValues.secondary,
              !.lonArcseconds = newValues.tertiary,
              !.lonDirection = newValues.direction]

\* App's effect, "Convert HMS/DMS to decimal degrees"
raDeg(c) == hmsToDeg(c.raHours, c.raMinutes, c.raSeconds)

decDeg_NoAbs(c) ==
    dmsToDeg(c.decDegrees, c.decArcminutes, c.decArcseconds)
        * (IF c.decDegrees < 0 THEN -1 ELSE 1)

decDeg(c) ==
    dmsToDeg(Abs(c.decDegrees), c.decArcminutes, c.decArcseconds)
        * (IF c.decDegrees < 0 THEN -1 ELSE 1)

observerLat(c) ==
    dmsToDeg(c.latDegrees, c.latArcminutes, c.latArcseconds)
        * (IF c.latDirection = "S" THEN -1 ELSE 1)

observerLon(c) ==
    dmsToDeg(c.lonDegrees, c.lonArcminutes, c.lonArcseconds)
        * (IF c.lonDirection = "W" THEN -1 ELSE 1)

\* ObserverSettings.handleStartTimeChange / handleEndTimeChange: the hour App
\* holds after the event, given the one it held before
handleStartTimeChange_NoUpperBound(startTime, value) ==
    LET parsed == parseInt(value)
    IN  IF IsFinite(parsed) /\ parsed.v >= 0 THEN parsed.v ELSE startTime

handleStartTimeChange(startTime, value) ==
    LET parsed == parseInt(value)
    IN  IF IsFinite(parsed) /\ parsed.v >= 0 /\ parsed.v <= 23
        THEN parsed.v ELSE startTime

handleEndTimeChange(endTime, value) ==
    LET parsed == parseInt(value)
    IN  IF IsFinite(parsed) /\ parsed.v >= 0 /\ parsed.v <= 23
        THEN parsed.v ELSE endTime

\* ObserverSettings: the date input holds a calendar date, counted in days
\* since 1970-01-01.  new Date('YYYY-MM-DD') is midnight UTC of that date;
\* date.toISOString().split('T')[0] is the UTC date of an instant.
parseDateOnly(value) == [day |-> value, ms |-> 0]
formatDateForInput(date) == date.day

\* ObserverSettings.handleDateChange: the Date handed to setObservationDate
handleDateChange(value) == parseDateOnly(value)

\* the props App wires to the CoordinateInput of each type
valuesOf(type, c) ==
    CASE type = "RA" -> raCoordinates(c)
      [] type = "Dec" -> decCoordinates(c)
      [] type = "Latitude" -> latitudeCoordinates(c)
      [] type = "Longitude" -> longitudeCoordinates(c)

onChange(type, c, newValues) ==
    CASE type = "RA" -> handleRaChange(c, newValues)
      [] type = "Dec" -> handleDecChange(c, newValues)
      [] type = "Latitude" -> handleLatitudeChange(c, newValues)
      [] type = "Longitude" -> handleLongitudeChange(c, newValues)

-----------------------------------------------------------------------------
(* useLocalStorage and useLocalStorageGroup over window.localStorage.  App  *)
(* stores numbers and the direction letters, and passes values (never      *)
(* updater functions) to the setters.                                      *)

\* the text of a localStorage item: a JSON number (given in hundredths), a
\* JSON string literal, the empty string, or text that is not JSON (such
\* as `undefined` or `{`)
ItemNumber(v100) == [k |-> "number", v |-> v100, s |-> ""]
ItemString(str) == [k |-> "string", v |-> 0, s |-> str]
ItemEmpty == [k |-> "empty", v |-> 0, s |-> ""]
ItemOther == [k |-> "other", v |-> 0, s |-> ""]

\* const fullKey = `${prefix}${key}`
fullKey(prefix, key) == prefix \o key

\* the keys whose values are direction letters, and those whose values
\* (seconds, arcseconds) the model keeps in hundredths
DirectionKeys == {fullKey("starpath_", n) : n \in {"latDirection", "lonDirection"}}
HundredthKeys ==
    {fullKey("starpath_", n) :
        n \in {"raSeconds", "decArcseconds", "latArcseconds", "lonArcseconds"}}

\* JSON.stringify(valueToStore)
JSONstringify(key, value) ==
    IF key \in DirectionKeys THEN ItemString(value)
    ELSE IF key \in HundredthKeys THEN ItemNumber(value)
    ELSE ItemNumber(100 * value)

\* JSON.parse(item): the value, or a SyntaxError for text that is not JSON
JSONparse(key, item) ==
    CASE item.k = "string" /\ key \in DirectionKeys ->
            [thrown |-> FALSE, value |-> item.s]
      [] item.k = "number" /\ key \in HundredthKeys ->
            [thrown |-> FALSE, value |-> item.v]
      [] item.k = "number" /\ key \notin DirectionKeys \cup HundredthKeys
                           /\ item.v % 100 = 0 ->
            [thrown |-> FALSE, value |-> item.v \div 100]
      [] item.k \in {"empty", "other"} ->
            [thrown |-> TRUE, value |-> 0]

\* try { ... } catch (error) { console.warn(...); ... }: the completion of
\* the statement, given the completion of the try block and what the catch
\* block completes with
catch(completion, handled) == IF completion.thrown THEN handled ELSE completion

\* the useState initialiser of useLocalStorage; getItem returns null for an
\* absent key, and `item ? ... : defaultValue` takes null and '' alike
initialValue_IgnoresStorage(items, key, defaultValue, getItemThrows) ==
    [thrown |-> FALSE, value |-> defaultValue]

initialValue(items, key, defaultValue, getItemThrows) ==
    catch(IF getItemThrows THEN [thrown |-> TRUE, value |-> defaultValue]
          ELSE IF key \notin DOMAIN items \/ items[key].k = "empty"
               THEN [thrown |-> FALSE, value |-> defaultValue]
          ELSE JSONparse(key, items[key]),
          [thrown |-> FALSE, value |-> defaultValue])

\* window.localStorage.setItem(key, item)
setItem(items, key, item) ==
    [k \in DOMAIN items \cup {key} |-> IF k = key THEN item ELSE items[k]]

\* setValue(value): setStoredValue(valueToStore) comes before setItem, so
\* the state holds the new value when setItem throws
setValue_StoreFirst(storedValue, items, key, value, setItemThrows) ==
    catch(IF setItemThrows
          THEN [thrown |-> TRUE, storedValue |-> storedValue, items |-> items]
          ELSE [thrown |-> FALSE, storedValue |-> value,
                items |-> setItem(items, key, JSONstringify(key, value))],
          [thrown |-> FALSE, storedValue |-> storedValue, items |-> items])

setValue(storedValue, items, key, value, setItemThrows) ==
    catch(IF setItemThrows
          THEN [thrown |-> TRUE, storedValue |-> value, items |-> items]
          ELSE [thrown |-> FALSE, storedValue |-> value,
                items |-> setItem(items, key, JSONstringify(key, value))],
          [thrown |-> FALSE, storedValue |-> value, items |-> items])

\* useLocalStorageGroup(prefix, defaults) on mount: one useLocalStorage per
\* key of defaults
useLocalStorageGroup(prefix, defaults, items, getItemThrows) ==
    [values |->
        [key \in DOMAIN defaults |->
            initialValue(items, fullKey(prefix, key), defaults[key],
                         getItemThrows).value],
     thrown |->
        \E key \in DOMAIN defaults :
            initialValue(items, fullKey(prefix, key), defaults[key],
                         getItemThrows).thrown]

\* the setters each of App's coordinate change handlers calls
settersOf ==
    [RA |-> {"raHours", "raMinutes", "raSeconds"},
     Dec |-> {"decDegrees", "decArcminutes", "decArcseconds"},
     Latitude |-> {"latDegrees", "latArcminutes", "latArcseconds", "latDirection"},
     Longitude |-> {"lonDegrees", "lonArcminutes", "lonArcseconds", "lonDirection"}]

\* localStorage after a change handler (c holds the values it set), when
\* every setItem succeeds
saveGroup(items, type, c) ==
    LET keys == {fullKey("starpath_", n) : n \in settersOf[type]}
        nameOf(k) == CHOOSE n \in settersOf[type] : fullKey("starpath_", n) = k
    IN  [k \in DOMAIN items \cup keys |->
            IF k \in keys
            THEN setValue(c[nameOf(k)], items, k, c[nameOf(k)], FALSE).items[k]
            ELSE items[k]]

-----------------------------------------------------------------------------
(* SimbadSearch and AstronomicalObjectSettings.handleSimbadSelect.  A null  *)
(* searchResults is the empty sequence, a result a sequence of one entry;  *)
(* seconds and arcseconds are in hundredths.                               *)

Entry(name, h, m, s100, d, dm, ds100) ==
    [name |-> name, raHms |-> [h |-> h, m |-> m, s |-> s100],
     decDms |-> [d |-> d, m |-> dm, s |-> ds100]]

\* the mock database
simbadData ==
    [k \in {"fireworks nebula", "ngc 6946", "vega", "betelgeuse", "rigel",
            "sirius", "andromeda galaxy", "m31", "orion nebula", "m42"} |->
        CASE k = "fireworks nebula" -> Entry("Fireworks Nebula", 20, 35, 2500, 60, 14, 4700)
          [] k = "ngc 6946" -> Entry("NGC 6946 (Fireworks Nebula)", 20, 35, 2500, 60, 14, 4700)
          [] k = "vega" -> Entry("Vega", 18, 36, 5630, 38, 47, 100)
          [] k = "betelgeuse" -> Entry("Betelgeuse", 5, 55, 1030, 7, 24, 2500)
          [] k = "rigel" -> Entry("Rigel", 5, 14, 3230, -8, 12, 600)
          [] k = "sirius" -> Entry("Sirius", 6, 45, 890, -16, 42, 5800)
          [] k = "andromeda galaxy" -> Entry("Andromeda Galaxy (M31)", 0, 42, 4430, 41, 16, 900)
          [] k = "m31" -> Entry("Andromeda Galaxy (M31)", 0, 42, 4430, 41, 16, 900)
          [] k = "orion nebula" -> Entry("Orion Nebula (M42)", 5, 35, 1730, -5, 23, 1400)
          [] k = "m42" -> Entry("Orion Nebula (M42)", 5, 35, 1730, -5, 23, 1400)]

\* searchQuery.trim() and searchQuery.toLowerCase(), for the queries typed
\* here: "", " ", "vega", " vega", "Rigel", "pluto"
trim(query) ==
    CASE query = " " -> ""
      [] query = " vega" -> "vega"
      [] OTHER -> query
toLowerCase(query) ==
    CASE query = "Rigel" -> "rigel"
      [] OTHER -> query

\* the state after the four useState calls; pending holds the queries of
\* the searchSimbad calls that wait for their timer
SimbadInitial ==
    [searchQuery |-> "", searchLoading |-> FALSE, searchError |-> "",
     searchResults |-> <<>>, pending |-> <<>>]

\* the input's and the Search button's `disabled`
inputDisabled_Never(s) == FALSE

inputDisabled(s) == s.searchLoading
buttonDisabled(s) == s.searchLoading \/ trim(s.searchQuery) = ""

\* searchSimbad, up to its await
searchSimbad(s) ==
    IF trim(s.searchQuery) = ""
    THEN [s EXCEPT !.searchError = "Please enter an object name to search"]
    ELSE [s EXCEPT !.searchLoading = TRUE,
                   !.searchError = "",
                   !.searchResults = <<>>,
                   !.pending = Append(@, s.searchQuery)]

\* searchSimbad from its await on, for the call that captured searchQuery;
\* nothing in the try block throws
searchSimbadResumed(s, searchQuery) ==
    LET found == toLowerCase(searchQuery) \in DOMAIN simbadData
        afterTry ==
            IF found
            THEN [s EXCEPT !.searchResults = <<simbadData[toLowerCase(searchQuery)]>>,
                           !.searchError = ""]
            ELSE [s EXCEPT !.searchError =
                      "Object \"" \o searchQuery \o "\" not found in database"]
    IN  [afterTry EXCEPT !.searchLoading = FALSE]

\* useSearchResults, SimbadSearch's part
useSearchResults(s) ==
    [s EXCEPT !.searchResults = <<>>, !.searchQuery = ""]

\* handleSimbadSelect: the values passed to onRaChange and onDecChange
simbadRa(searchResult) ==
    [primary |-> searchResult.raHms.h, secondary |-> searchResult.raHms.m,
     tertiary |-> searchResult.raHms.s]
simbadDec(searchResult) ==
    [primary |-> searchResult.decDms.d,
     secondary |-> Abs(searchResult.decDms.m),
     tertiary |-> Abs(searchResult.decDms.s)]

-----------------------------------------------------------------------------
(* PolarPlot: what its effect draws.  Lengths are thousandths of a pixel    *)
(* about the centre of the plot, x to the right and y downwards; angles    *)
(* are in the unit of DEG.                                                 *)

\* the value of a property that an object does not have
Undefined == [k |-> "undefined", v |-> 0]

\* value.name: a number has no property x or y
Prop(value, name) == IF value.k = "point" THEN value[name] ELSE Undefined

\* a + n and a * b / SCALE on JavaScript values: undefined and NaN give NaN
Plus(a, n) == IF a.k = "fin" THEN Fin(a.v + n) ELSE NaN
Times(a, b) ==
    IF a.k = "fin" /\ b.k = "fin" THEN Fin(TruncDiv(a.v * b.v, SCALE)) ELSE NaN

\* the props App passes (they are the defaults too), in pixels
width == 1024
height == 640

\* const radius = Math.min(width, height) / 2 - 60, in pixels
radius == (IF width < height THEN width ELSE height) \div 2 - 60

\* r = d3.scaleLinear().domain([0, 90]).range([radius, 0]); the scale does
\* not clamp.  1000 * radius / (90 * DEG) is 13 / 1620.
rScale(el) ==
    IF el.k = "fin" THEN Fin(1000 * radius - TruncDiv(el.v * 13, 1620)) ELSE NaN

\* objToDataVec: [az * RADPERDEG, el] for each sample (the angle stays in
\* the unit of DEG here)
objToDataVec(positionData) ==
    [i \in 1..Len(positionData) |-> <<positionData[i].az, positionData[i].el>>]

\* Math.cos(d[0] - Math.PI/2) and Math.sin(d[0] - Math.PI/2), scaled by SCALE
CosQuarterBack(a) == IF a.k = "fin" THEN Fin(cosd(a.v - 90 * DEG)) ELSE NaN
SinQuarterBack(a) == IF a.k = "fin" THEN Fin(sind(a.v - 90 * DEG)) ELSE NaN

\* the x and y accessors of `line`; the cardinal curve d3 draws starts at
\* the first of these points, passes through each and ends at the last
linePoint(d) ==
    [x |-> Times(rScale(d[2]), CosQuarterBack(d[1])),
     y |-> Times(rScale(d[2]), SinQuarterBack(d[1]))]

pathOf(positionData) ==
    [i \in 1..Len(positionData) |-> linePoint(objToDataVec(positionData)[i])]

\* const azimuthAngles = range(0, 360, 45/2)
azimuthAngles == [i \in 1..16 |-> (i - 1) * ((45 * DEG) \div 2)]

\* const math2map = (mathDeg) => (mathDeg + 90) % 360; further arguments
\* are ignored
math2map(mathDeg) ==
    IF mathDeg.k = "fin" THEN Fin(mod(mathDeg.v + 90 * DEG, 360 * DEG)) ELSE NaN

\* d >= 0 && d <= 360 ? d : d >= 360 ? d % 360 : 360 + d % 360
normalizeDegrees(d) ==
    IF d >= 0 /\ d <= 360 * DEG THEN d
    ELSE IF d >= 360 * DEG THEN mod(d, 360 * DEG)
    ELSE 360 * DEG + mod(d, 360 * DEG)

directions ==
    <<"S", "SSW", "SW", "WSW", "W", "WNW", "NW", "NNW",
      "N", "NNE", "NE", "ENE", "E", "ESE", "SE", "SSE">>

\* threeLetterDirections[d] for the keys 0, 22.5, ..., 337.5, and "" when
\* d is not a multiple of 22.5 (or is no key)
degreesToDirection(d) ==
    IF mod(d, (45 * DEG) \div 2) = 0 /\ d \div ((45 * DEG) \div 2) \in 0..15
    THEN directions[d \div ((45 * DEG) \div 2) + 1]
    ELSE ""

\* Math.round(x * 10) / 10 for x >= 0
RoundToTenth(x) == ((x + DEG \div 20) \div (DEG \div 10)) * (DEG \div 10)

\* the compass label of the group `rotate(-d)`: its text, and where the
\* rotation puts the point (radius + 6, 0) the text is anchored at
compassLabel(d) ==
    [text |-> degreesToDirection(
                  normalizeDegrees(RoundToTenth(math2map(Fin(d)).v))),
     x |-> (radius + 6) * cosd(-d),
     y |-> (radius + 6) * sind(-d)]

\* formatTime(hour): the number and the half of the day shown
formatTime(hour) ==
    IF hour = 0 THEN [n |-> 12, half |-> "AM"]
    ELSE IF hour < 12 THEN [n |-> hour, half |-> "AM"]
    ELSE IF hour = 12 THEN [n |-> 12, half |-> "PM"]
    ELSE [n |-> hour - 12, half |-> "PM"]

\* the circle and the text of a start or end marker: the attribute values
\* the effect passes to d3
marker(point) ==
    LET coordinates == math2map(point.az)
    IN  [cx |-> Prop(coordinates, "x"),
         cy |-> Prop(coordinates, "y"),
         textX |-> Prop(coordinates, "x"),
         textY |-> Plus(Prop(coordinates, "y"), -12000),
         label |-> formatTime(point.time)]

\* the Polaris star (drawn when the star is not below the horizon): its
\* vertex i = 0 and the place of its label
polarisStar(polarisPosition) ==
    LET polarisCoords == math2map(polarisPosition.az)
    IN  IF polarisPosition.el.k = "fin" /\ polarisPosition.el.v >= 0
        THEN <<[x |-> Plus(Prop(polarisCoords, "x"), 0),
                y |-> Plus(Prop(polarisCoords, "y"), -8000),
                textX |-> Prop(polarisCoords, "x"),
                textY |-> Plus(Prop(polarisCoords, "y"), 20000)]>>
        ELSE <<>>

\* where the browser puts an element: an absent or non-numeric coordinate
\* attribute counts as 0 (d3 removes an attribute set to undefined)
Rendered(attribute) == IF attribute.k = "fin" THEN attribute.v ELSE 0

\* everything the effect appends to the cleared svg
PolarPlotDraw(positionData, polarisPosition) ==
    [positionData |-> positionData,
     labels |-> [i \in 1..16 |-> compassLabel(azimuthAngles[i])],
     path |-> pathOf(positionData),
     startMarker |-> marker(positionData[1]),
     endMarker |-> marker(positionData[Len(positionData)]),
     polaris |-> polarisStar(polarisPosition)]

-----------------------------------------------------------------------------
(* Inputs *)

\* start instants lie on the days BaseDays + 0 .. MaxDayOffset
MaxDayOffset == 0
\* at most MaxCalls logged RaDec2AzEl calls and MaxTicks clock steps
MaxCalls == 2
MaxTicks == 2

\* 1970-01-01, 1999-12-31 (the GMST polynomial changes sign on it) and
\* 2026-11-02, in days since 1970-01-01
BaseDays == {0, 10956, 20759}
Days == {b + k : b \in BaseDays, k \in 0..MaxDayOffset}
\* 00:00:00.000, 10:30:15.250, 18:30:00.000 and 23:59:59.999 UTC
TimesOfDay == {0, 37815250, 66600000, 86399999}
Instants == {[day |-> d, ms |-> t] : d \in Days, t \in TimesOfDay}
\* UTC-5, UTC and UTC+5:30
Offsets == {-300, 0, 330}
Hours == 0..23

Objects == {fireworksCelestial, solCelestial}
RaSet == {0, (558 * DEG) \div 10, fireworksCelestial.ra}
DecSet == {0, (197 * DEG) \div 10, -30 * DEG, 90 * DEG}
LatSet == {0, 50 * DEG, dunstableMAUsaLatLong.lat, -35 * DEG, 90 * DEG, -90 * DEG}
LonSet == {0, 10 * DEG, dunstableMAUsaLatLong.lon}
\* the right ascension on the observer's meridian at an instant (the local
\* sidereal time): an object there has local hour angle 0
MeridianRa(lon, dateObj) == ThetaGMST(dateObj).v + lon
\* GMST, longitude and right ascension of the local hour angle: the ends and
\* the middle of [0, 360), [-180, 180] and [0, 360)
GmstSet == {0, 10 * DEG, 180 * DEG, 360 * DEG - 1}
LhaLonSet == {-180 * DEG, dunstableMAUsaLatLong.lon, 0, 180 * DEG}
LhaRaSet == {0, fireworksCelestial.ra, 360 * DEG - 1}
\* dividends and divisors of mod
Dividends == (-8..8) \cup {-450 * DEG, -360 * DEG, 450 * DEG, -272747593, 849235507}
Divisors == {-86400, -5, -3, 3, 5, 86400, -360 * DEG, 360 * DEG}
\* arguments of hmsToDeg / dmsToDeg: whole part, minutes, seconds * 100
WholeSet == {-10, 0, 20, 60}
MinuteSet == {0, 14, 35, 59, 75}
SecondSet == {0, 2500, 4700, 5520, 6000}

\* start instants of the position-data generators: 10:30:15.250 UTC, and
\* the clock for a defaulted startDate
PositionInstants == {[day |-> k, ms |-> 37815250] : k \in 0..MaxDayOffset}
\* App: the default object seen by the default observer, and a southern
\* object seen from the south-east; the dates handleDateChange yields
\* (midnight UTC)
AppInputs ==
    {[obj |-> fireworksCelestial, obs |-> dunstableMAUsaLatLong],
     [obj |-> [ra |-> hmsToDeg(6, 45, 900), dec |-> -dmsToDeg(16, 42, 5800)],
      obs |-> [lat |-> -dmsToDeg(33, 52, 0), lon |-> dmsToDeg(151, 12, 0)]]}
AppDates == {[day |-> 10956 + k, ms |-> 0] : k \in 0..MaxDayOffset}
\* instants before 1970 (a negative time value), for getJulian
EarlyInstants == {[day |-> -1 - k, ms |-> t] : k \in 0..MaxDayOffset, t \in TimesOfDay}
\* logged RaDec2AzEl calls: [Ra, Dec, lat, lon, dateObj]
LoggedInputs ==
    {<<ra, 0, dunstableMAUsaLatLong.lat, lon, [day |-> 20759 + k, ms |-> 0]>> :
        ra \in {0, fireworksCelestial.ra}, lon \in {0, dunstableMAUsaLatLong.lon},
        k \in 0..MaxDayOffset}

\* the values typed into each CoordinateInput field: the default, values at
\* and beyond the field's bounds, a fraction, text
InputValues ==
    [RA |-> [primary |-> {Text, Num(2000), Num(2400)},
             secondary |-> {Num(3500), Num(6000)},
             tertiary |-> {Num(2500), Num(6000)}],
     Dec |-> [primary |-> {Text, Num(-9100), Num(-1050), Num(6000), Num(9000),
                           Num(9100)},
              secondary |-> {Num(1400), Num(-100)},
              tertiary |-> {Num(4700), Num(6000)}],
     Latitude |-> [primary |-> {Num(-100), Num(0), Num(4200), Num(9000), Num(9100)},
                   secondary |-> {Num(0), Num(4100), Num(6000)},
                   tertiary |-> {Text, Num(0), Num(100)}],
     Longitude |-> [primary |-> {Num(7100), Num(18100)},
                    secondary |-> {Text, Num(2800)},
                    tertiary |-> {Num(-1), Num(1600)}]]
\* the options of the direction selects
Directions == [Latitude |-> {"N", "S"}, Longitude |-> {"E", "W"}]
\* the values a start-time or end-time change event carries: hours of the
\* select, and values no option has
TimeValues == {Text, Num(-100), Num(0), Num(600), Num(1800), Num(2300), Num(2400)}

Clock0 == [day |-> 20759, ms |-> 37815250]

\* the hooks whose setters are called on their own, the values passed, and
\* the text localStorage can hold that no setter wrote
StorageNames == {"raHours", "latDirection"}
StorageValues == [raHours |-> {20, 5}, latDirection |-> {"N", "S"}]
ForeignItems == {ItemEmpty, ItemOther}

\* the text typed into the search box, and the most searches in flight
Queries == {"", " ", "vega", " vega", "Rigel", "pluto"}
MaxPending == 2

\* PolarPlot's props: at most MaxSamples samples, at the cardinal azimuths,
\* between them and at a negative azimuth, from the horizon to the zenith
MaxSamples == 2
PlotAzimuths == {0, 45 * DEG, 90 * DEG, 180 * DEG, 270 * DEG, -90 * DEG}
PlotElevations == {0, 30 * DEG, 90 * DEG}
PlotSamples ==
    {[az |-> Fin(a), el |-> Fin(e), time |-> h] :
        a \in PlotAzimuths, e \in PlotElevations, h \in {0, 18}}
PlotInputs == UNION {[1..n -> PlotSamples] : n \in 0..MaxSamples}
PolarisInputs ==
    {[az |-> Fin(0), el |-> Fin(dunstableMAUsaLatLong.lat)],
     [az |-> Fin(180 * DEG), el |-> Fin(-dunstableMAUsaLatLong.lat)]}

-----------------------------------------------------------------------------
(* The state machine: the module keeps no state of its own, so a behaviour  *)
(* is one call (two, for getJulian) from the initial state; the variables  *)
(* hold the call's arguments and what it returned.                         *)

Init ==
    /\ tz \in Offsets
    /\ now = Clock0
    /\ op = "init"
    /\ startDate = Clock0
    /\ startHour = 18
    /\ endHour = 6
    /\ celestialObject = fireworksCelestial
    /\ observer = dunstableMAUsaLatLong
    /\ dates = <<>>
    /\ data = <<>>
    /\ args = <<>>
    /\ ret = 0
    /\ prev = <<>>
    /\ calls = {}
    /\ coords = defaultCoords
    /\ heap = <<>>
    /\ storage = <<>>
    /\ objectName = "Fireworks Nebula"
    /\ simbad = SimbadInitial
    /\ plot = <<>>

Env == UNCHANGED <<tz, now, calls, coords, heap, storage, objectName, simbad, plot>>

\* a call of a generator: op, its arguments, and what it returned
Call(name, obj, obs, start, sHour, eHour, dateVec, result) ==
    /\ op = "init"
    /\ op' = name
    /\ celestialObject' = obj
    /\ observer' = obs
    /\ startDate' = start
    /\ startHour' = sHour
    /\ endHour' = eHour
    /\ dates' = dateVec
    /\ data' = result
    /\ args' = <<>>
    /\ ret' = 0
    /\ prev' = <<>>
    /\ Env

GenerateHourlyDates ==
    /\ op = "init"
    /\ \E start \in Instants :
        Call("generateHourlyDates", celestialObject, dunstableMAUsaLatLong,
             start, startHour, endHour, generateHourlyDates(start), <<>>)

GenerateNighttimeDates ==
    /\ op = "init"
    /\ \E start \in Instants :
        Call("generateNighttimeDates", celestialObject, dunstableMAUsaLatLong,
             start, startHour, endHour, generateNighttimeDates(start), <<>>)

GenerateCustomTimeDates ==
    /\ op = "init"
    /\ \E start \in Instants, sHour \in Hours, eHour \in Hours :
        Call("generateCustomTimeDates", celestialObject, dunstableMAUsaLatLong,
             start, sHour, eHour, generateCustomTimeDates(start, sHour, eHour), <<>>)

\* startDate defaults to new Date()
GeneratePositionData ==
    /\ op = "init"
    /\ \E obj \in Objects, start \in Instants \cup {now} :
        Call("generatePositionData", obj, dunstableMAUsaLatLong,
             start, startHour, endHour,
             generateHourlyDates(start), generatePositionData(obj, start))

GenerateNighttimePositionData ==
    /\ op = "init"
    /\ \E obj \in Objects, start \in Instants \cup {now} :
        Call("generateNighttimePositionData", obj, dunstableMAUsaLatLong,
             start, startHour, endHour,
             generateNighttimeDates(start), generateNighttimePositionData(obj, start))

GenerateCustomTimePositionData ==
    /\ op = "init"
    /\ \E obj \in Objects, start \in PositionInstants \cup {now},
          sHour \in Hours, eHour \in Hours :
        Call("generateCustomTimePositionData", obj, dunstableMAUsaLatLong,
             start, sHour, eHour,
             generateCustomTimeDates(start, sHour, eHour),
             generateCustomTimePositionData(obj, start, sHour, eHour))

AppUseEffect ==
    /\ op = "init"
    /\ \E in \in AppInputs, start \in AppDates \cup {now},
          sHour \in Hours, eHour \in Hours :
        Call("App", in.obj, in.obs, start, sHour, eHour,
             generateCustomTimeDates(start, sHour, eHour),
             AppCurrentObject(in.obj, in.obs, start, sHour, eHour))

CallRaDec2AzEl ==
    /\ op = "init"
    /\ \E dec \in DecSet, lat \in LatSet, lon \in LonSet, dateObj \in Instants :
        \E ra \in RaSet \cup {MeridianRa(lon, dateObj)} :
            Call("RaDec2AzEl", [ra |-> ra, dec |-> dec], [lat |-> lat, lon |-> lon],
                 dateObj, startHour, endHour, <<dateObj>>,
                 <<RaDec2AzEl(ra, dec, lat, lon, dateObj)>>)

\* a call of a scalar function: op, its arguments, and what it returned
Scalar(name, a, r) ==
    /\ op \in {"init", name}
    /\ prev = <<>>
    /\ op' = name
    /\ args' = a
    /\ ret' = r
    /\ dates' = <<>>
    /\ data' = <<>>
    /\ UNCHANGED <<celestialObject, observer, startDate, startHour, endHour>>
    /\ Env

\* two calls in a row: prev keeps the first beside the second
CallGetJulian ==
    /\ op \in {"init", "getJulian"}
    /\ prev = <<>>
    /\ \E date \in Instants \cup EarlyInstants :
        /\ Scalar("getJulian", <<date>>, getJulian(date))
        /\ prev' = IF op = "getJulian" THEN <<[date |-> args[1], JD |-> ret]>> ELSE <<>>

CallHmsToDeg ==
    /\ op = "init"
    /\ \E h \in WholeSet, m \in MinuteSet, s100 \in SecondSet :
        /\ Scalar("hmsToDeg", <<h, m, s100>>, hmsToDeg(h, m, s100))
        /\ prev' = <<>>

CallDmsToDeg ==
    /\ op = "init"
    /\ \E d \in WholeSet, m \in MinuteSet, s100 \in SecondSet :
        /\ Scalar("dmsToDeg", <<d, m, s100>>, dmsToDeg(d, m, s100))
        /\ prev' = <<>>

\* the GMST step of RaDec2AzEl on its own
CallThetaGMST ==
    /\ op = "init"
    /\ \E dateObj \in Instants \cup EarlyInstants :
        /\ Scalar("ThetaGMST", <<dateObj>>, ThetaGMST(dateObj))
        /\ prev' = <<>>

\* the local-hour-angle step of RaDec2AzEl on its own
CallLHA ==
    /\ op = "init"
    /\ \E gmst \in GmstSet, lon \in LhaLonSet, ra \in LhaRaSet :
        /\ Scalar("LHA", <<gmst, lon, ra>>, LHA(gmst, lon, ra))
        /\ prev' = <<>>

CallMod ==
    /\ op = "init"
    /\ \E a \in Dividends, b \in Divisors :
        /\ Scalar("mod", <<a, b>>, mod(a, b))
        /\ prev' = <<>>

\* the clock moves on
Tick ==
    /\ now.ms < Clock0.ms + MaxTicks * MsPerHour
    /\ now' = [now EXCEPT !.ms = @ + MsPerHour]
    /\ UNCHANGED <<tz, op, startDate, startHour, endHour, celestialObject,
                   observer, dates, data, args, ret, prev, calls, coords, heap,
                   storage, objectName, simbad, plot>>

\* a call of RaDec2AzEl, logged with the clock at the time of the call
LoggedRaDec2AzEl ==
    /\ Cardinality(calls) < MaxCalls
    /\ \E in \in LoggedInputs :
        calls' = calls \cup
            {[in |-> in, clock |-> now,
              out |-> RaDec2AzEl(in[1], in[2], in[3], in[4], in[5])]}
    /\ UNCHANGED <<tz, now, op, startDate, startHour, endHour, celestialObject,
                   observer, dates, data, args, ret, prev, coords, heap,
                   storage, objectName, simbad, plot>>

\* App's effect (it runs when a dependency changed): the arguments it
\* passes to RaDec2AzEl and generateCustomTimeDates, and positionData.current
AppEffect(c, startTime, endTime) ==
    IF c = coords /\ startTime = startHour /\ endTime = endHour
    THEN UNCHANGED <<celestialObject, observer, dates, data>>
    ELSE /\ celestialObject' = [ra |-> raDeg(c), dec |-> decDeg(c)]
         /\ observer' = [lat |-> observerLat(c), lon |-> observerLon(c)]
         /\ dates' = generateCustomTimeDates(startDate, startTime, endTime)
         /\ data' = AppCurrentObject([ra |-> raDeg(c), dec |-> decDeg(c)],
                                     [lat |-> observerLat(c), lon |-> observerLon(c)],
                                     startDate, startTime, endTime)

\* a change event on a coordinate field, up to App's effect: the values
\* the setters leave in App's state and the items they leave in
\* localStorage (which takes every write here)
CoordinateEvent(c, items) ==
    /\ op' = "handleInputChange"
    /\ coords' = c
    /\ storage' = items
    /\ AppEffect(c, startHour, endHour)
    /\ args' = <<>>
    /\ ret' = 0
    /\ prev' = <<>>
    /\ UNCHANGED <<tz, now, calls, heap, startDate, startHour, endHour,
                   objectName, simbad, plot>>

HandleInputChange ==
    /\ op \in {"init", "handleInputChange"}
    /\ \E type \in {"RA", "Dec", "Latitude", "Longitude"},
          field \in {"primary", "secondary", "tertiary"} :
        \E value \in InputValues[type][field] :
            LET c == onChange(type, coords,
                         handleInputChange(type, valuesOf(type, coords), field, value))
            IN  CoordinateEvent(c, IF callsOnChange(type, field, value)
                                   THEN saveGroup(storage, type, c)
                                   ELSE storage)

HandleDirectionChange ==
    /\ op \in {"init", "handleInputChange"}
    /\ \E type \in {"Latitude", "Longitude"} :
        \E value \in Directions[type] :
            LET c == onChange(type, coords,
                         handleDirectionChange(valuesOf(type, coords), value))
            IN  CoordinateEvent(c, saveGroup(storage, type, c))

\* the same change events, observed: args is the event (type, field,
\* value), prev the coordinates and localStorage before it, ret whether
\* onChange was called and with which values
CoordinateInputEvent ==
    /\ op \in {"init", "handleInputChange"}
    /\ \E type \in {"RA", "Dec", "Latitude", "Longitude"},
          field \in {"primary", "secondary", "tertiary", "direction"} :
        /\ field = "direction" => type \in DOMAIN Directions
        /\ \E value \in IF field = "direction" THEN Directions[type]
                         ELSE InputValues[type][field] :
            LET values == valuesOf(type, coords)
                called == field = "direction" \/ callsOnChange(type, field, value)
                newValues == IF field = "direction"
                             THEN handleDirectionChange(values, value)
                             ELSE handleInputChange(type, values, field, value)
                c == onChange(type, coords, newValues)
            IN  /\ op' = "CoordinateInput"
                /\ coords' = c
                /\ storage' = IF called THEN saveGroup(storage, type, c)
                              ELSE storage
                /\ AppEffect(c, startHour, endHour)
                /\ args' = <<[type |-> type, field |-> field, value |-> value]>>
                /\ ret' = IF called THEN <<newValues>> ELSE <<>>
                /\ prev' = <<[coords |-> coords, storage |-> storage]>>
                /\ UNCHANGED <<tz, now, calls, heap, startDate, startHour,
                               endHour, objectName, simbad, plot>>

\* a change event on the start-time or end-time select, up to App's effect;
\* args is the value it carried, prev the hours App held before it
TimeEvent(name, value, startTime, endTime) ==
    /\ op' = name
    /\ startHour' = startTime
    /\ endHour' = endTime
    /\ AppEffect(coords, startTime, endTime)
    /\ args' = <<value>>
    /\ ret' = 0
    /\ prev' = <<[startTime |-> startHour, endTime |-> endHour]>>
    /\ UNCHANGED <<tz, now, calls, heap, startDate, coords,
                   storage, objectName, simbad, plot>>

HandleStartTimeChange ==
    /\ op \in {"init", "handleStartTimeChange", "handleEndTimeChange"}
    /\ \E value \in TimeValues :
        TimeEvent("handleStartTimeChange", value,
                  handleStartTimeChange(startHour, value), endHour)

HandleEndTimeChange ==
    /\ op \in {"init", "handleStartTimeChange", "handleEndTimeChange"}
    /\ \E value \in TimeValues :
        TimeEvent("handleEndTimeChange", value,
                  startHour, handleEndTimeChange(endHour, value))

\* a generator called on the caller's Date object: the caller holds two
\* objects, the clock's Date (1) and the start Date (2); args is the start
\* object, ret the array of objects returned, prev the heap before the
\* call, dates the instants the returned objects denote
HeapCall(name, start, sHour, eHour, result) ==
    /\ op' = name
    /\ startDate' = start
    /\ startHour' = sHour
    /\ endHour' = eHour
    /\ heap' = result.heap
    /\ args' = <<2>>
    /\ ret' = result.dates
    /\ prev' = <<<<now, start>>>>
    /\ dates' = [i \in 1..Len(result.dates) |-> result.heap[result.dates[i]]]
    /\ data' = <<>>
    /\ UNCHANGED <<tz, now, calls, coords, celestialObject, observer,
                   storage, objectName, simbad, plot>>

HeapHourlyDates ==
    /\ op = "init"
    /\ \E start \in Instants :
        HeapCall("generateHourlyDates", start, startHour, endHour,
                 HeapGenerateHourlyDates(<<now, start>>, 2))

HeapNighttimeDates ==
    /\ op = "init"
    /\ \E start \in Instants :
        HeapCall("generateNighttimeDates", start, startHour, endHour,
                 HeapGenerateNighttimeDates(<<now, start>>, 2))

HeapCustomTimeDates ==
    /\ op = "init"
    /\ \E start \in Instants, sHour \in Hours, eHour \in Hours :
        HeapCall("generateCustomTimeDates", start, sHour, eHour,
                 HeapGenerateCustomTimeDates(<<now, start>>, 2, sHour, eHour))

\* a change event on the date input, up to App's effect (a new Date object
\* is a changed dependency, so the effect runs) and the next render; args
\* is the date picked, ret the date the input then shows
HandleDateChange ==
    /\ op \in {"init", "handleStartTimeChange", "handleEndTimeChange"}
    /\ \E value \in Days :
        LET observationDate == handleDateChange(value)
            obj == [ra |-> raDeg(coords), dec |-> decDeg(coords)]
            obs == [lat |-> observerLat(coords), lon |-> observerLon(coords)]
        IN  /\ op' = "handleDateChange"
            /\ startDate' = observationDate
            /\ celestialObject' = obj
            /\ observer' = obs
            /\ dates' = generateCustomTimeDates(observationDate, startHour, endHour)
            /\ data' = AppCurrentObject(obj, obs, observationDate, startHour, endHour)
            /\ args' = <<value>>
            /\ ret' = formatDateForInput(observationDate)
            /\ prev' = <<>>
            /\ UNCHANGED <<tz, now, calls, heap, startHour, endHour, coords,
                           storage, objectName, simbad, plot>>

StorageOps == {"init", "setValue", "useLocalStorageGroup", "localStorage"}

\* setCoords[name](value), up to App's effect; setItem may throw (storage
\* full or disabled).  args is the call and whether setItem threw, ret the
\* completion of setValue.
SetValue ==
    /\ op \in StorageOps
    /\ \E name \in StorageNames, setItemThrows \in BOOLEAN :
        \E value \in StorageValues[name] :
            LET completion == setValue(coords[name], storage,
                                       fullKey("starpath_", name), value,
                                       setItemThrows)
                c == [coords EXCEPT ![name] = completion.storedValue]
            IN  /\ op' = "setValue"
                /\ coords' = c
                /\ storage' = completion.items
                /\ AppEffect(c, startHour, endHour)
                /\ args' = <<[name |-> name, value |-> value,
                              setItemThrows |-> setItemThrows]>>
                /\ ret' = [thrown |-> completion.thrown]
                /\ prev' = <<>>
                /\ UNCHANGED <<tz, now, calls, heap, startDate, startHour,
                               endHour, objectName, simbad, plot>>

\* the page is loaded again: App mounts, useLocalStorageGroup reads every
\* key (getItem may throw), the other state starts from its initial values
\* and App's effect runs
Reload ==
    /\ op \in StorageOps
    /\ \E getItemThrows \in BOOLEAN :
        LET group == useLocalStorageGroup("starpath_", defaultCoords, storage,
                                          getItemThrows)
            c == group.values
            obj == [ra |-> raDeg(c), dec |-> decDeg(c)]
            obs == [lat |-> observerLat(c), lon |-> observerLon(c)]
        IN  /\ op' = "useLocalStorageGroup"
            /\ coords' = c
            /\ startDate' = now
            /\ startHour' = 18
            /\ endHour' = 6
            /\ celestialObject' = obj
            /\ observer' = obs
            /\ dates' = generateCustomTimeDates(now, 18, 6)
            /\ data' = AppCurrentObject(obj, obs, now, 18, 6)
            /\ args' = <<[getItemThrows |-> getItemThrows]>>
            /\ ret' = [thrown |-> group.thrown]
            /\ prev' = <<>>
            /\ objectName' = "Fireworks Nebula"
            /\ simbad' = SimbadInitial
            /\ plot' = <<>>
            /\ UNCHANGED <<tz, now, calls, heap, storage>>

\* localStorage changes behind the hook's back (the user clears the site's
\* data, or an item is overwritten with text the hook did not write); the
\* hook does not listen for it
StorageEdited ==
    /\ op \in StorageOps
    /\ \E name \in StorageNames :
        /\ \/ storage' = [k \in DOMAIN storage \ {fullKey("starpath_", name)} |->
                              storage[k]]
           \/ \E item \in ForeignItems :
                storage' = setItem(storage, fullKey("starpath_", name), item)
        /\ op' = "localStorage"
        /\ args' = <<>>
        /\ ret' = [thrown |-> FALSE]
        /\ prev' = <<>>
        /\ UNCHANGED <<tz, now, calls, heap, startDate, startHour, endHour,
                       celestialObject, observer, dates, data, coords,
                       objectName, simbad, plot>>

\* an event of SimbadSearch that leaves App alone
SimbadEvent(name, s) ==
    /\ op' = name
    /\ simbad' = s
    /\ UNCHANGED <<tz, now, startDate, startHour, endHour, celestialObject,
                   observer, dates, data, args, ret, prev, calls, coords,
                   heap, storage, objectName, plot>>

SimbadOps ==
    {"init", "setSearchQuery", "searchSimbad", "handleKeyPress",
     "searchSimbadResumed", "useSearchResults"}

\* typing in the search box
SetSearchQuery ==
    /\ op \in SimbadOps
    /\ ~inputDisabled(simbad)
    /\ \E query \in Queries : SimbadEvent("setSearchQuery",
                                           [simbad EXCEPT !.searchQuery = query])

\* a click on the Search button
ClickSearch ==
    /\ op \in SimbadOps
    /\ ~buttonDisabled(simbad)
    /\ Len(simbad.pending) < MaxPending
    /\ SimbadEvent("searchSimbad", searchSimbad(simbad))

\* the Enter key in the search box
HandleKeyPress ==
    /\ op \in SimbadOps
    /\ ~inputDisabled(simbad)
    /\ Len(simbad.pending) < MaxPending
    /\ SimbadEvent("handleKeyPress", searchSimbad(simbad))

\* the timer of the oldest search in flight fires
SearchSimbadResumed ==
    /\ op \in SimbadOps
    /\ simbad.pending # <<>>
    /\ SimbadEvent("searchSimbadResumed",
                   searchSimbadResumed([simbad EXCEPT !.pending = Tail(@)],
                                       Head(simbad.pending)))

\* a click on "Use These Coordinates" (shown with a result), up to App's
\* effect
UseSearchResults ==
    /\ op \in SimbadOps
    /\ simbad.searchResults # <<>>
    /\ LET searchResult == simbad.searchResults[1]
           c == handleDecChange(handleRaChange(coords, simbadRa(searchResult)),
                                simbadDec(searchResult))
       IN  /\ op' = "useSearchResults"
           /\ coords' = c
           /\ storage' = saveGroup(saveGroup(storage, "RA", c), "Dec", c)
           /\ objectName' = searchResult.name
           /\ simbad' = useSearchResults(simbad)
           /\ AppEffect(c, startHour, endHour)
           /\ UNCHANGED <<tz, now, startDate, startHour, endHour, args, ret,
                          prev, calls, heap, plot>>

\* PolarPlot's effect for the props it is rendered with: it returns at
\* once when positionData is empty, and otherwise clears the svg and draws
PolarPlotEffect ==
    /\ op = "init"
    /\ \E positionData \in PlotInputs, polarisPosition \in PolarisInputs :
        /\ plot' = IF Len(positionData) = 0 THEN plot
                   ELSE PolarPlotDraw(positionData, polarisPosition)
        /\ op' = "PolarPlot"
        /\ UNCHANGED <<tz, now, startDate, startHour, endHour, celestialObject,
                       observer, dates, data, args, ret, prev, calls, coords,
                       heap, storage, objectName, simbad>>

\* the date generators, the fixed-observer position data and the scalar
\* functions
Next ==
    \/ GenerateHourlyDates
    \/ GenerateNighttimeDates
    \/ GenerateCustomTimeDates
    \/ GeneratePositionData
    \/ GenerateNighttimePositionData
    \/ CallRaDec2AzEl
    \/ CallGetJulian
    \/ CallHmsToDeg
    \/ CallDmsToDeg
    \/ CallThetaGMST
    \/ CallLHA
    \/ CallMod

Spec == Init /\ [][Next]_vars

\* the custom-range position data: the module's and App's
NextData ==
    \/ GenerateCustomTimePositionData
    \/ AppUseEffect

SpecData == Init /\ [][NextData]_vars

\* RaDec2AzEl called repeatedly while the clock runs
NextCalls ==
    \/ Tick
    \/ LoggedRaDec2AzEl

SpecCalls == Init /\ [][NextCalls]_vars

\* the coordinate inputs, from the default values
NextCoords ==
    \/ HandleInputChange
    \/ HandleDirectionChange

SpecCoords == Init /\ [][NextCoords]_vars

\* the start-time and end-time selects, from the default hours
NextTimes ==
    \/ HandleStartTimeChange
    \/ HandleEndTimeChange

SpecTimes == Init /\ [][NextTimes]_vars

\* the date generators, with the Date objects they allocate and change
NextHeap ==
    \/ HeapHourlyDates
    \/ HeapNighttimeDates
    \/ HeapCustomTimeDates

SpecHeap == Init /\ [][NextHeap]_vars

\* the coordinate inputs, the last event observed
NextInput ==
    \/ HandleInputChange
    \/ HandleDirectionChange
    \/ CoordinateInputEvent

SpecInput == Init /\ [][NextInput]_vars

\* the date input, after the start-time and end-time selects
NextDate ==
    \/ HandleStartTimeChange
    \/ HandleEndTimeChange
    \/ HandleDateChange

SpecDate == Init /\ [][NextDate]_vars

\* the hooks of App's group: setters, reloads and foreign changes of
\* localStorage
NextStorage ==
    \/ SetValue
    \/ Reload
    \/ StorageEdited

SpecStorage == Init /\ [][NextStorage]_vars

\* SimbadSearch: typing, Search and Enter, the timer, and the use of a
\* result
NextSimbad ==
    \/ SetSearchQuery
    \/ ClickSearch
    \/ HandleKeyPress
    \/ SearchSimbadResumed
    \/ UseSearchResults

SpecSimbad == Init /\ [][NextSimbad]_vars

\* the 500 ms timer of a search in flight fires
SpecSimbadFair == SpecSimbad /\ WF_vars(SearchSimbadResumed)

\* PolarPlot rendered with a set of props
NextPlot == PolarPlotEffect

SpecPlot == Init /\ [][NextPlot]_vars

-----------------------------------------------------------------------------
(* Claims *)

NightLabels == <<18, 19, 20, 21, 22, 23, 0, 1, 2, 3, 4, 5>>

\* C1: for every start instant, generateNighttimePositionData returns exactly
\* 12 samples labelled 18,19,20,21,22,23,0,1,2,3,4,5 in that order, the first
\* six on the start date and the last six on the following calendar date.
C1_NightLabels ==
    op = "generateNighttimePositionData" =>
        /\ Len(data) = 12
        /\ \A i \in 1..Len(data) : data[i].time = NightLabels[i]
        /\ \A i \in 1..Len(dates) :
            LocalDay(dates[i]) = LocalDay(startDate) + (IF i <= 6 THEN 0 ELSE 1)

\* C2: whenever the result is finite, the azimuth returned by RaDec2AzEl
\* lies in [0, 360).
C2_AzimuthRange ==
    op = "RaDec2AzEl" =>
        (IsFinite(data[1].az) =>
            (0 <= data[1].az.v /\ data[1].az.v < 360 * DEG))

\* C3: for startHour > endHour, generateCustomTimeDates returns
\* (24 - startHour) + (endHour + 1) instants: hours startHour..23 on the
\* start date, then hours 0..endHour on the following calendar date.
C3_CrossMidnight ==
    (op = "generateCustomTimeDates" /\ startHour > endHour) =>
        /\ Len(dates) = (24 - startHour) + (endHour + 1)
        /\ \A i \in 1..Len(dates) :
            IF i <= 24 - startHour
            THEN /\ getHours(dates[i]) = startHour + i - 1
                 /\ LocalDay(dates[i]) = LocalDay(startDate)
            ELSE /\ getHours(dates[i]) = i - (24 - startHour) - 1
                 /\ LocalDay(dates[i]) = LocalDay(startDate) + 1

C3_Witness ==
    /\ op = "generateCustomTimeDates"
    /\ startHour = 19
    /\ endHour = 4
    /\ Len(dates) = 10
    /\ getHours(dates[5]) = 23
    /\ getHours(dates[6]) = 0
    /\ getHours(dates[10]) = 4

\* C4: for startHour <= endHour, generateCustomTimeDates returns
\* endHour - startHour + 1 instants, one for every hour startHour..endHour
\* in ascending order, all on the start date's calendar day.
C4_SameDay ==
    (op = "generateCustomTimeDates" /\ startHour <= endHour) =>
        /\ Len(dates) = endHour - startHour + 1
        /\ \A i \in 1..Len(dates) :
            /\ getHours(dates[i]) = startHour + i - 1
            /\ LocalDay(dates[i]) = LocalDay(startDate)

C4_Witness ==
    /\ op = "generateCustomTimeDates"
    /\ startHour = 8
    /\ endHour = 18
    /\ Len(dates) = 11
    /\ getHours(dates[1]) = 8
    /\ getHours(dates[11]) = 18

\* the instant C5 names: the start instant with its hour field set to
\* (start hour + i), as local fields
HourlyFields(i) ==
    [day |-> LocalDay(startDate) + ((getHours(startDate) + i) \div 24),
     hour |-> (getHours(startDate) + i) % 24,
     min |-> getMinutes(startDate),
     sec |-> getSeconds(startDate),
     msec |-> getMilliseconds(startDate)]

FieldsOf(d) ==
    [day |-> LocalDay(d), hour |-> getHours(d), min |-> getMinutes(d),
     sec |-> getSeconds(d), msec |-> getMilliseconds(d)]

\* C5: generateHourlyDates / generatePositionData return exactly 24 entries,
\* the i-th (i = 0..23) computed at the start instant with its hour field
\* set to start hour + i, rolling into the next day past 23.
C5_Hourly ==
    /\ op \in {"generateHourlyDates", "generatePositionData"} =>
        /\ Len(dates) = 24
        /\ \A i \in 0..23 : FieldsOf(dates[i + 1]) = HourlyFields(i)
    /\ op = "generatePositionData" =>
        /\ Len(data) = 24
        /\ \A i \in 1..24 :
            data[i] = RaDec2AzEl(celestialObject.ra, celestialObject.dec,
                                 dunstableMAUsaLatLong.lat,
                                 dunstableMAUsaLatLong.lon, dates[i])

C5_Witness ==
    /\ op = "generatePositionData"
    /\ getHours(startDate) > 0
    /\ getMinutes(startDate) > 0
    /\ Len(data) = 24
    /\ LocalDay(dates[24]) = LocalDay(startDate) + 1

\* C6: generateCustomTimePositionData and App's mapping yield one sample per
\* generated instant, in the instants' order, and sample i is labelled
\* with the hour that was set on instant i.
C6_SamplePerInstant ==
    op \in {"generateCustomTimePositionData", "App"} =>
        /\ Len(data) = Len(dates)
        /\ Len(data) = (IF startHour <= endHour THEN endHour - startHour + 1
                        ELSE 24 - startHour + endHour + 1)
        /\ \A i \in 1..Len(data) :
            /\ data[i].time = (startHour + i - 1) % 24
            /\ [az |-> data[i].az, el |-> data[i].el]
                 = RaDec2AzEl(celestialObject.ra, celestialObject.dec,
                              observer.lat, observer.lon, dates[i])

C6_Witness ==
    /\ op = "generateCustomTimePositionData"
    /\ startHour = 19
    /\ endHour = 4
    /\ Len(data) = 10
    /\ data[1].time = 19
    /\ data[6].time = 0
    /\ data[10].time = 4

\* C7: every instant generateCustomTimeDates returns has minutes, seconds
\* and milliseconds 0, whatever the start instant's time of day; hence two
\* start instants on the same local calendar day give identical sequences.
C7_ZeroedFields ==
    op = "generateCustomTimeDates" =>
        /\ \A i \in 1..Len(dates) :
            /\ getMinutes(dates[i]) = 0
            /\ getSeconds(dates[i]) = 0
            /\ getMilliseconds(dates[i]) = 0
        /\ \A other \in Instants :
            LocalDay(other) = LocalDay(startDate) =>
                generateCustomTimeDates(other, startHour, endHour) = dates

C7_Witness ==
    /\ op = "generateCustomTimeDates"
    /\ getMinutes(startDate) # 0
    /\ getSeconds(startDate) # 0
    /\ getMilliseconds(startDate) # 0
    /\ Len(dates) > 1
    /\ \E other \in Instants :
        other # startDate /\ LocalDay(other) = LocalDay(startDate)

\* C8: getJulian(instant) = epoch milliseconds / 86400000 + 2440587.5 for
\* every instant, negative ones included; epoch 0 maps to 2440587.5; and
\* t1 <= t2 implies getJulian(t1) <= getJulian(t2).
C8_Julian ==
    op = "getJulian" =>
        /\ ret.ms \in 0..(MsPerDay - 1)
        /\ (ret.day - 2440587 - args[1].day) * MsPerDay + (ret.ms - args[1].ms)
             = MsPerDay \div 2
        /\ args[1] = [day |-> 0, ms |-> 0] =>
             ret = [day |-> 2440587, ms |-> MsPerDay \div 2]
        /\ \A p \in {prev[i] : i \in 1..Len(prev)} :
            /\ Leq(p.date, args[1]) => Leq(p.JD, ret)
            /\ Leq(args[1], p.date) => Leq(ret, p.JD)

C8_Witness ==
    /\ op = "getJulian"
    /\ Len(prev) = 1
    /\ prev[1].date.day < 0
    /\ prev[1].date.ms > MsPerDay \div 2
    /\ args[1].day > 0
    /\ ret # prev[1].JD

\* C9: with no range validation, dmsToDeg(d, m, s) = d + m/60 + s/3600 and
\* hmsToDeg(h, m, s) = 15 * (h + m/60 + s/3600); hmsToDeg(20, 35, 25) is
\* 1111875 arcseconds and dmsToDeg(60, 14, 47) is 216887 arcseconds.
\* (An angle unit is 1/100 arcsecond; args[3] is the seconds * 100.)
C9_HmsDms ==
    /\ op = "dmsToDeg" =>
        /\ ret = 360000 * args[1] + 6000 * args[2] + args[3]
        /\ args = <<60, 14, 4700>> => ret = 216887 * 100
    /\ op = "hmsToDeg" =>
        /\ ret = 15 * (360000 * args[1] + 6000 * args[2] + args[3])
        /\ args = <<20, 35, 2500>> => ret = 1111875 * 100

C9_Witness ==
    /\ op = "dmsToDeg"
    /\ args[2] >= 60
    /\ args[3] >= 6000
    /\ ret = 360000 * args[1] + 6000 * args[2] + args[3]

C11_DecLatRange ==
    op = "handleInputChange" =>
        /\ -90 * DEG <= celestialObject.dec /\ celestialObject.dec <= 90 * DEG
        /\ -90 * DEG <= observer.lat /\ observer.lat <= 90 * DEG

DegenerateCall ==
    /\ op = "RaDec2AzEl"
    /\ \/ Abs(observer.lat) = 90 * DEG
       \/ IsFinite(data[1].el) /\ Abs(data[1].el.v) = 90 * DEG

C15_GMSTRange ==
    op = "ThetaGMST" =>
        /\ IsFinite(ret)
        /\ 0 <= ret.v
        /\ ret.v < 360 * DEG

\* C16: for every GMST in [0, 360), longitude in [-180, 180] and right
\* ascension in [0, 360), the local hour angle mod(GMST + lon - Ra, 360)
\* lies in [0, 360).
C16_LHARange ==
    op = "LHA" => (0 <= ret /\ ret < 360 * DEG)

\* C17: for all a and all b # 0, mod(a, b) is the truncated remainder: zero
\* or of the sign of a, smaller than |b| in magnitude, a - mod(a, b) a
\* multiple of b, and mod(a, b) = mod(a, -b).
C17_TruncatedRemainder ==
    op = "mod" =>
        /\ ret = 0 \/ Sign(ret) = Sign(args[1])
        /\ Abs(ret) < Abs(args[2])
        /\ (args[1] - ret) % Abs(args[2]) = 0
        /\ ret = mod(args[1], -args[2])

C17_Witness ==
    /\ op = "mod"
    /\ args = <<-7, 3>>
    /\ ret = -1

\* C18: the exported constant solCelestial.dec equals the declination
\* -10 deg 59' 55.2" named in its comment, -(10 + 59/60 + 55.2/3600) degrees
\* (in angle units, hundredths of an arcsecond).
C18_SolDeclination ==
    (op \in {"generatePositionData", "generateNighttimePositionData"}
        /\ celestialObject = solCelestial) =>
        celestialObject.dec = -(10 * DEG + 59 * (DEG \div 60) + 5520)

\* |degrees| + arcmin / 60 + arcsec / 3600, in angle units
Magnitude(degrees, arcminutes, arcseconds) ==
    Abs(degrees) * DEG + arcminutes * (DEG \div 60) + arcseconds

\* the magnitudes C19 names, whatever the signs
C19_Magnitudes ==
    /\ Abs(celestialObject.dec)
         = Magnitude(coords.decDegrees, coords.decArcminutes, coords.decArcseconds)
    /\ Abs(observer.lat)
         = Magnitude(coords.latDegrees, coords.latArcminutes, coords.latArcseconds)
    /\ Abs(observer.lon)
         = Magnitude(coords.lonDegrees, coords.lonArcminutes, coords.lonArcseconds)

\* C19 as stated: for all accepted input values, App passes to RaDec2AzEl a
\* declination of magnitude |decDegrees| + arcmin/60 + arcsec/3600 that is
\* negative exactly when decDegrees < 0, a latitude that is negative exactly
\* when the direction is 'S', and a longitude that is negative exactly when
\* the direction is 'W'; the sign never changes the magnitude.
C19_SignsAsStated ==
    op = "handleInputChange" =>
        /\ C19_Magnitudes
        /\ (celestialObject.dec < 0) <=> (coords.decDegrees < 0)
        /\ (observer.lat < 0) <=> (coords.latDirection = "S")
        /\ (observer.lon < 0) <=> (coords.lonDirection = "W")

\* C19 as amended: the same, with the latitude (longitude) negative exactly
\* when the direction is 'S' ('W') and its magnitude is not zero, and never
\* positive with 'S' ('W').
C19_Signs ==
    op = "handleInputChange" =>
        /\ C19_Magnitudes
        /\ (celestialObject.dec < 0) <=> (coords.decDegrees < 0)
        /\ (observer.lat < 0) <=>
            (coords.latDirection = "S" /\ Abs(observer.lat) # 0)
        /\ (observer.lon < 0) <=>
            (coords.lonDirection = "W" /\ Abs(observer.lon) # 0)
        /\ coords.latDirection = "S" => observer.lat <= 0
        /\ coords.lonDirection = "W" => observer.lon <= 0

C19_Witness ==
    /\ op = "handleInputChange"
    /\ coords.decDegrees = -10
    /\ celestialObject.dec = -(10 * DEG + 14 * (DEG \div 60) + 4700)
    /\ coords.latDirection = "S"
    /\ observer.lat = -(90 * DEG)
    /\ coords.lonDirection = "E"
    /\ observer.lon > 0

\* C20: generateHourlyDates, generateNighttimeDates and
\* generateCustomTimeDates never modify the start instant passed in: after
\* any call the caller's date object (and every object that existed before
\* the call) denotes the same instant as before, and every returned instant
\* is a fresh object: allocated by the call, and no two entries the same
\* object.  The instants returned are those of the value-level generators.
C20_StartUntouched ==
    op \in {"generateHourlyDates", "generateNighttimeDates",
            "generateCustomTimeDates"} =>
        /\ heap[args[1]] = startDate
        /\ \A id \in 1..Len(prev[1]) : heap[id] = prev[1][id]
        /\ \A i \in 1..Len(ret) :
            /\ ret[i] > Len(prev[1])
            /\ ret[i] <= Len(heap)
            /\ \A j \in 1..Len(ret) : i # j => ret[i] # ret[j]
        /\ dates = (CASE op = "generateHourlyDates" -> generateHourlyDates(startDate)
                      [] op = "generateNighttimeDates" -> generateNighttimeDates(startDate)
                      [] op = "generateCustomTimeDates" ->
                            generateCustomTimeDates(startDate, startHour, endHour))

C20_Witness ==
    /\ op = "generateNighttimeDates"
    /\ Len(ret) = 12
    /\ Len(heap) = 15
    /\ heap[2] = startDate
    /\ heap[ret[1]] # startDate
    /\ getHours(startDate) > 0


-----------------------------------------------------------------------------
\* the point the browser puts a marker's circle at
MarkerAt(m) == <<Rendered(m.cx), Rendered(m.cy)>>
PathPoint(i) == <<plot.path[i].x.v, plot.path[i].y.v>>

(* C21: in PolarPlot the start and end markers (circle and time label) are  *)
(* at the plot coordinates of the first and the last sample of              *)
(* positionData, the points where the drawn path begins and ends.           *)
C21_MarkersOnPath ==
    plot # <<>> =>
        /\ MarkerAt(plot.startMarker) = PathPoint(1)
        /\ MarkerAt(plot.endMarker) = PathPoint(Len(plot.path))
        /\ Rendered(plot.startMarker.textX) = PathPoint(1)[1]
        /\ Rendered(plot.endMarker.textX) = PathPoint(Len(plot.path))[1]

-----------------------------------------------------------------------------
\* the side of the plot a point lies on
Side(x, y) ==
    IF Abs(y) > Abs(x) THEN (IF y < 0 THEN "top" ELSE "bottom")
    ELSE IF Abs(x) > Abs(y) THEN (IF x > 0 THEN "right" ELSE "left")
    ELSE "centre"

\* the compass name of a cardinal azimuth (0 = North, 90 = East, 180 =
\* South, 270 = West), "" for any other
CardinalName(az) ==
    CASE az = 0 -> "N"
      [] az = 90 * DEG -> "E"
      [] az = 180 * DEG -> "S"
      [] az = 270 * DEG -> "W"
      [] OTHER -> ""

\* sample i lies at a cardinal azimuth, away from the zenith
CardinalSample(i) ==
    /\ CardinalName(plot.positionData[i].az.v) # ""
    /\ plot.positionData[i].el.v < 90 * DEG

(* C27: PolarPlot's path and its compass labels use the same orientation:   *)
(* a sample at a cardinal azimuth (0 = North, 90 = East, 180 = South,       *)
(* 270 = West) is drawn on the side of the plot that carries the matching   *)
(* label N, E, S or W.                                                      *)
C27_SameOrientation ==
    plot # <<>> =>
        \A i \in 1..Len(plot.path) :
            CardinalSample(i) =>
                \E j \in 1..16 :
                    /\ plot.labels[j].text = CardinalName(plot.positionData[i].az.v)
                    /\ Side(plot.labels[j].x, plot.labels[j].y)
                         = Side(plot.path[i].x.v, plot.path[i].y.v)

-----------------------------------------------------------------------------
\* the milliseconds from instant a to instant b
Elapsed(a, b) == (b.day - a.day) * MsPerDay + (b.ms - a.ms)

(* C22: for startHour, endHour in 0..23 (no DST change) the instants        *)
(* generateCustomTimeDates returns are strictly increasing, consecutive    *)
(* instants are exactly one hour apart (also from 23:00 to 00:00 of the    *)
(* next day) and no hour-of-day label occurs twice.                        *)
C22_HourlySteps ==
    (op = "generateCustomTimeDates" /\ startHour \in 0..23 /\ endHour \in 0..23) =>
        /\ \A i \in 1..(Len(dates) - 1) :
            /\ Elapsed(dates[i], dates[i + 1]) = MsPerHour
            /\ Leq(dates[i], dates[i + 1]) /\ dates[i] # dates[i + 1]
        /\ \A i, j \in 1..Len(dates) :
            i # j => getHours(dates[i]) # getHours(dates[j])

\* a range across midnight that takes in all 24 hours of the day, where the
\* local day of the start differs from its UTC day
C22_Witness ==
    /\ op = "generateCustomTimeDates"
    /\ startHour = endHour + 1
    /\ Len(dates) = 24
    /\ \E i \in 1..23 : getHours(dates[i]) = 23 /\ getHours(dates[i + 1]) = 0
    /\ LocalDay(startDate) # startDate.day

-----------------------------------------------------------------------------
\* the JSON text of the values the setters are called with
EncodingOf(name, value) ==
    CASE name = "raHours" -> ItemNumber(100 * value)
      [] name = "latDirection" -> ItemString(value)

ItemOf(name) == storage[fullKey("starpath_", name)]
Present(name) == fullKey("starpath_", name) \in DOMAIN storage

(* C25: useLocalStorage keeps state and storage in agreement: after a       *)
(* successful setValue the hook's value is the value set and               *)
(* localStorage[key] holds its JSON encoding; a hook initialised later     *)
(* with the key starts with the value a setter stored there, and with the  *)
(* default when the key is absent.                                         *)
C25_StateMatchesStorage ==
    /\ (op = "setValue" /\ ~args[1].setItemThrows) =>
          /\ coords[args[1].name] = args[1].value
          /\ Present(args[1].name)
          /\ ItemOf(args[1].name) = EncodingOf(args[1].name, args[1].value)
    /\ (op = "useLocalStorageGroup" /\ ~args[1].getItemThrows) =>
          /\ \A name \in DOMAIN defaultCoords :
                ~Present(name) => coords[name] = defaultCoords[name]
          /\ \A name \in StorageNames :
                \A value \in StorageValues[name] :
                    (Present(name) /\ ItemOf(name) = EncodingOf(name, value))
                        => coords[name] = value

\* a reload finds the hours and the direction a setter stored (neither the
\* default) and no item for the minutes
C25_Witness ==
    /\ op = "useLocalStorageGroup"
    /\ ~args[1].getItemThrows
    /\ Present("raHours") /\ ItemOf("raHours") = ItemNumber(500)
    /\ coords.raHours = 5
    /\ Present("latDirection") /\ ItemOf("latDirection") = ItemString("S")
    /\ coords.latDirection = "S"
    /\ ~Present("raMinutes") /\ coords.raMinutes = 35

(* C26: when reading or writing localStorage throws, useLocalStorage does   *)
(* not propagate the exception: a failed read (getItem throws, or the item *)
(* is not JSON) yields the default value, and a failed write leaves the    *)
(* in-memory value updated to the new value.                               *)
C26_FailuresContained ==
    /\ op \in {"setValue", "useLocalStorageGroup"} => ~ret.thrown
    /\ (op = "useLocalStorageGroup" /\ args[1].getItemThrows) =>
          coords = defaultCoords
    /\ (op = "useLocalStorageGroup" /\ ~args[1].getItemThrows) =>
          \A name \in StorageNames :
              (Present(name) /\ ItemOf(name) = ItemOther)
                  => coords[name] = defaultCoords[name]
    /\ (op = "setValue" /\ args[1].setItemThrows) =>
          coords[args[1].name] = args[1].value

\* a write failed: the hook holds 5 hours, localStorage does not
C26_Witness ==
    /\ op = "setValue"
    /\ args[1].setItemThrows
    /\ args[1].name = "raHours"
    /\ coords.raHours = 5
    /\ ~(Present("raHours") /\ ItemOf("raHours") = ItemNumber(500))

-----------------------------------------------------------------------------
(* C23: in every reachable state of SimbadSearch (typing, Enter or Search,  *)
(* the completion of a search, "Use These Coordinates") a non-empty error  *)
(* message and a non-null search result are never present together.        *)
C23_ErrorOrResult ==
    ~(simbad.searchError # "" /\ simbad.searchResults # <<>>)

\* a search has ended: not loading, with a result or a not-found error
SearchEnded ==
    /\ ~simbad.searchLoading
    /\ \/ simbad.searchResults # <<>>
       \/ \E query \in Queries :
            simbad.searchError = "Object \"" \o query \o "\" not found in database"

(* C24: at most one search is in flight at any time (while loading neither  *)
(* the button nor the Enter key starts another), and every search started  *)
(* with a non-blank query ends with loading = false and a result or a      *)
(* not-found error set.                                                    *)
C24_OneSearchAtATime ==
    /\ [](Len(simbad.pending) <= 1)
    /\ [](simbad.searchLoading <=> simbad.pending # <<>>)
    /\ (simbad.searchLoading ~> SearchEnded)

\* a search for "Rigel" has ended with the entry found
C24_Witness ==
    /\ op = "searchSimbadResumed"
    /\ simbad.searchQuery = "Rigel"
    /\ ~simbad.searchLoading
    /\ simbad.pending = <<>>
    /\ simbad.searchResults = <<simbadData["rigel"]>>

-----------------------------------------------------------------------------
\* the entries of dates that generateCustomTimeDates makes from the start
\* date itself (the others, after 23:00, are made from the next day)
SameDayEntries ==
    IF startHour <= endHour THEN 1..Len(dates) ELSE 1..(24 - startHour)

(* C28: for every date picked in the date input and every local UTC        *)
(* offset, after handleDateChange the date input shows the picked date     *)
(* again and generateCustomTimeDates samples the same-day hours on that    *)
(* calendar date in local time.                                            *)
C28_PickedDateSampled ==
    op = "handleDateChange" =>
        /\ ret = args[1]
        /\ \A i \in SameDayEntries : LocalDay(dates[i]) = args[1]

-----------------------------------------------------------------------------
\* the number a field's text stands for, in the field's unit (whole units;
\* hundredths for the tertiary field), and whether the event is one the
\* claim has rejected: text that is no number, or a number outside the
\* bounds of the field
TypedNumber(e) ==
    IF e.field = "tertiary" THEN e.value.v
    ELSE IF e.value.v >= 0 THEN e.value.v \div 100 ELSE -((-e.value.v) \div 100)

Rejected(e) ==
    /\ e.field # "direction"
    /\ \/ e.value.k = "text"
       \/ TypedNumber(e) < defaultBounds[e.type][e.field].min
       \/ TypedNumber(e) > defaultBounds[e.type][e.field].max

\* the fields of App's coordinates that belong to one CoordinateInput
CoordinateFields(type) ==
    CASE type = "RA" ->
            [primary |-> "raHours", secondary |-> "raMinutes",
             tertiary |-> "raSeconds"]
      [] type = "Dec" ->
            [primary |-> "decDegrees", secondary |-> "decArcminutes",
             tertiary |-> "decArcseconds"]
      [] type = "Latitude" ->
            [primary |-> "latDegrees", secondary |-> "latArcminutes",
             tertiary |-> "latArcseconds", direction |-> "latDirection"]
      [] type = "Longitude" ->
            [primary |-> "lonDegrees", secondary |-> "lonArcminutes",
             tertiary |-> "lonArcseconds", direction |-> "lonDirection"]

(* C29: CoordinateInput.handleInputChange on field f: if the parsed value  *)
(* is NaN or outside the bounds of f for the coordinate type, onChange is  *)
(* not called and the coordinate is unchanged; otherwise onChange receives *)
(* the current values with only field f replaced, every other field        *)
(* (direction included) unchanged, and App's coordinates change in that    *)
(* field alone.                                                            *)
C29_OnlyFieldReplaced ==
    op = "CoordinateInput" =>
        LET e == args[1]
            before == prev[1].coords
            own == CoordinateFields(e.type)
        IN  IF Rejected(e)
            THEN /\ ret = <<>>
                 /\ coords = before
                 /\ storage = prev[1].storage
            ELSE /\ Len(ret) = 1
                 /\ DOMAIN ret[1] = DOMAIN own
                 /\ ret[1][e.field] = IF e.field = "direction" THEN e.value
                                      ELSE TypedNumber(e)
                 /\ \A g \in DOMAIN own \ {e.field} : ret[1][g] = before[own[g]]
                 /\ \A n \in DOMAIN coords :
                        coords[n] = IF n = own[e.field] THEN ret[1][e.field]
                                    ELSE before[n]

\* an accepted event that changes the latitude's degrees while its
\* direction holds a value other than the default
C29_Witness ==
    /\ op = "CoordinateInput"
    /\ ~Rejected(args[1])
    /\ args[1].type = "Latitude"
    /\ args[1].field = "primary"
    /\ coords.latDegrees # prev[1].coords.latDegrees
    /\ coords.latDirection = "S"


=============================================================================
